---- MODULE Spec2Model ----
(***************************************************************************)
(* Controller service of the cloudscale.ch CSI driver                      *)
(* (driver/controller.go) against the volume store of the block-storage    *)
(* API (driver/driver_test.go, FakeVolumeServiceOperations).               *)
(*                                                                         *)
(* Byte quantities are int64 values in the code.  They are written here as *)
(* records [gb |-> q, b |-> r] standing for q * GB + r with 0 <= r < GB,   *)
(* which is exact for every non-negative value and keeps each component    *)
(* inside the range of the model checker's integers.                       *)
(***************************************************************************)
EXTENDS Integers, Sequences, FiniteSets, TLC

VARIABLES
    volumes,        \* the store: volume UUID -> volume (FakeVolumeServiceOperations.volumes)
    nextID,         \* number of UUIDs the store has handed out so far
    rpc,            \* per request slot: the request in flight or last answered
    capRange,       \* calculateStorageGB under test: its capacity range argument
    storageType,    \* calculateStorageGB under test: its storage type argument
    calcResult,     \* calculateStorageGB under test: its result, NotCalled before the call
    backend         \* the API as the client finds it: "up", "failing" or "unreachable"

vars == <<volumes, nextID, rpc, capRange, storageType, calcResult, backend>>


-----------------------------------------------------------------------------
(* Constants of the driver                                                 *)

GB == 1073741824
SSDStepSizeGB == 1
BulkStepSizeGB == 100

\* the most volumes the API attaches to one node
defaultMaxVolumesPerNode == 2

-----------------------------------------------------------------------------
(* Bounds of the model                                                     *)

\* capacity ranges tried on calculateStorageGB: every whole GiB up to this
MaxSmallGB == 4
\* ... and the GiB counts next to every multiple of 50 GiB up to this many
MaxHalfSteps == 4
\* the store hands out at most this many UUIDs
MaxVolumes == 2

-----------------------------------------------------------------------------
(* int64 byte counts                                                       *)

Bytes(q, r) == [gb |-> q, b |-> r]

\* int64(n) * GB
GiB(n) == Bytes(n, 0)

ZeroBytes == Bytes(0, 0)

\* x < y on byte counts
BytesLess(x, y) == x.gb < y.gb \/ (x.gb = y.gb /\ x.b < y.b)

\* x / GB on a non-negative byte count (Go's integer division)
DivGB(x) == x.gb

-----------------------------------------------------------------------------
(* calculateStorageGB                                                      *)

Ok(n) == [size |-> n, err |-> "nil"]
Fail(e) == [size |-> 0, err |-> e]

\* mutation: the bulk step is forgotten
sizeIncrementsOf_AlwaysSSD(type) == SSDStepSizeGB

\* the allocation step of a storage type, in GB
sizeIncrementsOf(type) == IF type = "bulk" THEN BulkStepSizeGB ELSE SSDStepSizeGB

\* mutation: the division is not rounded up
stepsFor_Floor(requiredBytes, sizeIncrements) ==
    DivGB(requiredBytes) \div sizeIncrements

\* steps := requiredBytes / GB / sizeIncrements, plus one if that is too small
stepsFor(requiredBytes, sizeIncrements) ==
    LET steps == DivGB(requiredBytes) \div sizeIncrements
    IN  IF BytesLess(GiB(steps * sizeIncrements), requiredBytes)
        THEN steps + 1
        ELSE steps

\* mutation: the rounded size is not compared with the limit
sizeWithinLimit_NoRoundedCheck(requiredBytes, limitBytes, sizeIncrements) ==
    LET requiredSet == BytesLess(ZeroBytes, requiredBytes)
        limitSet    == BytesLess(ZeroBytes, limitBytes)
        sizeGB      == stepsFor(requiredBytes, sizeIncrements) * sizeIncrements
    IN  IF ~requiredSet /\ ~limitSet
        THEN Ok(sizeIncrements)
        ELSE IF requiredSet /\ limitSet /\ BytesLess(limitBytes, requiredBytes)
        THEN Fail("limit can not be less than required size")
        ELSE IF limitSet /\ BytesLess(limitBytes, GiB(sizeIncrements))
        THEN Fail("limit can not be less than minimum supported volume size")
        ELSE Ok(sizeGB)

\* the checks on the limit and the size returned, once a range is given
sizeWithinLimit(requiredBytes, limitBytes, sizeIncrements) ==
    LET requiredSet == BytesLess(ZeroBytes, requiredBytes)
        limitSet    == BytesLess(ZeroBytes, limitBytes)
        sizeGB      == stepsFor(requiredBytes, sizeIncrements) * sizeIncrements
    IN  IF ~requiredSet /\ ~limitSet
        THEN Ok(sizeIncrements)
        ELSE IF requiredSet /\ limitSet /\ BytesLess(limitBytes, requiredBytes)
        THEN Fail("limit can not be less than required size")
        ELSE IF limitSet /\ BytesLess(limitBytes, GiB(sizeIncrements))
        THEN Fail("limit can not be less than minimum supported volume size")
        ELSE IF limitSet /\ BytesLess(limitBytes, GiB(sizeGB))
        THEN Fail("limit must be at least the rounded required size")
        ELSE Ok(sizeGB)

calculateStorageGB(range, type) ==
    IF range.isNil
    THEN Ok(sizeIncrementsOf(type))
    ELSE sizeWithinLimit(range.required, range.limit, sizeIncrementsOf(type))

-----------------------------------------------------------------------------
(* Inputs of calculateStorageGB                                            *)

StorageTypes == {"ssd", "bulk"}

GBCounts ==
    (0 .. MaxSmallGB)
    \cup {k * 50 + d : k \in 1 .. MaxHalfSteps, d \in {-1, 0, 1}}

\* whole GiB counts, one byte more and one byte less than the next GiB
ByteCounts == {Bytes(q, r) : q \in GBCounts, r \in {0, 1, GB - 1}}

\* capRange == nil; its getters answer 0
NilRange == [isNil |-> TRUE, required |-> ZeroBytes, limit |-> ZeroBytes]

CapacityRanges ==
    {NilRange} \cup [isNil : {FALSE}, required : ByteCounts, limit : ByteCounts]

-----------------------------------------------------------------------------
(* The volume store (FakeVolumeServiceOperations)                          *)

\* VolumeId == "": no volume ID given.  UUIDs are 1, 2, ... in order of creation.
EmptyID == 0

DefaultZone == "dev1"

\* the compute nodes the API knows (FakeServerServiceOperations.servers)
Servers == {"n1", "n2"}

NoVolume ==
    [UUID |-> EmptyID, Name |-> "", SizeGB |-> 0, Type |-> "",
     ServerUUIDs |-> <<>>, Zone |-> ""]

\* errors of the API client
ErrNil == [isNil |-> TRUE, structured |-> FALSE, StatusCode |-> 0, attachLimit |-> FALSE]

\* generateNotFoundError: a *cloudscale.ErrorResponse with status 404
NotFoundError ==
    [isNil |-> FALSE, structured |-> TRUE, StatusCode |-> 404, attachLimit |-> FALSE]

\* the ErrorResponse with status 400 whose message is the attach-limit phrase
AttachLimitError ==
    [isNil |-> FALSE, structured |-> TRUE, StatusCode |-> 400, attachLimit |-> TRUE]

\* an ErrorResponse with a status that is not 404, and an error that is no
\* ErrorResponse (no answer came)
ServerError ==
    [isNil |-> FALSE, structured |-> TRUE, StatusCode |-> 500, attachLimit |-> FALSE]

NetworkError ==
    [isNil |-> FALSE, structured |-> FALSE, StatusCode |-> 0, attachLimit |-> FALSE]

\* the error of every call while the API is not up
backendError == IF backend = "failing" THEN ServerError ELSE NetworkError

\* Volumes.List with a name filter
volumesNamed(name) ==
    {volumes[id] : id \in {i \in DOMAIN volumes : volumes[i].Name = name}}

\* Volumes.Get
getVolume(id) ==
    IF backend # "up"
    THEN [volume |-> NoVolume, err |-> backendError]
    ELSE IF id \in DOMAIN volumes
    THEN [volume |-> volumes[id], err |-> ErrNil]
    ELSE [volume |-> NoVolume, err |-> NotFoundError]

\* Volumes.Create: the volume a create request makes, under a new UUID
createdVolume(id, volumeReq) ==
    [UUID |-> id, Name |-> volumeReq.Name, SizeGB |-> volumeReq.SizeGB,
     Type |-> volumeReq.Type, ServerUUIDs |-> <<>>, Zone |-> DefaultZone]

getVolumesPerServer(serverUUID) ==
    Cardinality({id \in DOMAIN volumes :
        \E i \in 1 .. Len(volumes[id].ServerUUIDs) :
            volumes[id].ServerUUIDs[i] = serverUUID})

\* mutation: a volume attached to one node is not handed to another
updateServersError_Conflict(id, serverUUIDs) ==
    IF backend # "up" THEN backendError
    ELSE IF id \notin DOMAIN volumes THEN NotFoundError
    ELSE IF Len(serverUUIDs) = 1 /\ serverUUIDs[1] \notin Servers THEN NotFoundError
    ELSE IF Len(serverUUIDs) = 1
            /\ volumes[id].ServerUUIDs \notin {<<>>, serverUUIDs}
    THEN ServerError
    ELSE IF Len(serverUUIDs) = 1
            /\ getVolumesPerServer(serverUUIDs[1]) >= defaultMaxVolumesPerNode
    THEN AttachLimitError
    ELSE ErrNil

\* Volumes.Update with a server set of zero or one node: the error it answers
updateServersError(id, serverUUIDs) ==
    IF backend # "up" THEN backendError
    ELSE IF id \notin DOMAIN volumes THEN NotFoundError
    ELSE IF Len(serverUUIDs) = 1 /\ serverUUIDs[1] \notin Servers THEN NotFoundError
    ELSE IF Len(serverUUIDs) = 1
            /\ getVolumesPerServer(serverUUIDs[1]) >= defaultMaxVolumesPerNode
    THEN AttachLimitError
    ELSE ErrNil

\* mutation: the nodes of an update are added to the nodes the volume has
withServers_Append(id, serverUUIDs) ==
    [volumes EXCEPT ![id].ServerUUIDs = @ \o serverUUIDs]

withServers(id, serverUUIDs) ==
    [volumes EXCEPT ![id].ServerUUIDs = serverUUIDs]

withSize(id, sizeGB) ==
    [volumes EXCEPT ![id].SizeGB = sizeGB]

without(id) ==
    [i \in DOMAIN volumes \ {id} |-> volumes[i]]

-----------------------------------------------------------------------------
(* Requests and responses                                                  *)

Slots == {1, 2}

NoContext == [name |-> "", luksEncrypted |-> "", luksCipher |-> "", luksKeySize |-> ""]

\* a response; code "OK" is the nil error, typed tells a gRPC status error
\* from a plain Go error
NoResponse ==
    [code |-> "none", typed |-> TRUE, VolumeId |-> EmptyID,
     CapacityBytes |-> ZeroBytes, Context |-> NoContext, Zone |-> "",
     NodeExpansionRequired |-> FALSE, Confirmed |-> <<>>, Entries |-> <<>>,
     label |-> "", Capabilities |-> <<>>]

Success == [NoResponse EXCEPT !.code = "OK"]

\* status.Error(code, ...)
StatusError(code) == [NoResponse EXCEPT !.code = code]

\* an error returned as it came (fmt.Errorf, or the client's error)
PlainError == [NoResponse EXCEPT !.code = "Unknown", !.typed = FALSE]

NoPrevious == [same |-> FALSE, resp |-> NoResponse]

NoRequest == [VolumeId |-> EmptyID]

\* got is the volume a handler holds between its two remote calls; matches
\* the number of volumes its lookup by name found; err the error of its last
\* remote call
IdleRPC ==
    [op |-> "none", req |-> NoRequest, pc |-> "idle", got |-> NoVolume,
     matches |-> 0, err |-> ErrNil, resp |-> NoResponse, calls |-> <<>>,
     prev |-> NoPrevious]

\* a slot takes a new request once its last one is answered
Free(s) == rpc[s].pc \in {"idle", "done"}

\* the answer to the request served last, if that was the same request and no
\* other request has been served beside it
previous(s, op, req) ==
    IF /\ rpc[s].pc = "done" /\ rpc[s].op = op /\ rpc[s].req = req
       /\ \A t \in Slots \ {s} : rpc[t].pc = "idle"
    THEN [same |-> TRUE, resp |-> rpc[s].resp]
    ELSE NoPrevious

Arrived(s, op, req) ==
    [IdleRPC EXCEPT !.op = op, !.req = req, !.pc = "start",
                    !.prev = previous(s, op, req)]

Answered(r, resp) == [r EXCEPT !.pc = "done", !.resp = resp, !.got = NoVolume]

Called(r, method) == [r EXCEPT !.calls = Append(@, method)]

-----------------------------------------------------------------------------
(* Capabilities                                                            *)

SingleNodeWriter == "SINGLE_NODE_WRITER"

Mount == [mode |-> SingleNodeWriter, type |-> "mount"]
Block == [mode |-> SingleNodeWriter, type |-> "block"]
MultiWriterMount == [mode |-> "MULTI_NODE_MULTI_WRITER", type |-> "mount"]
UntypedCapability == [mode |-> SingleNodeWriter, type |-> "none"]
NilCapability == [mode |-> "nil", type |-> "nil"]

validateCapabilities(caps) ==
    {"unsupported access mode" : i \in {j \in 1 .. Len(caps) : caps[j].mode # SingleNodeWriter}}
    \cup {"unsupported access type" :
             i \in {j \in 1 .. Len(caps) : caps[j].type \notin {"block", "mount"}}}

\* mutation: only the first capability is looked at
validateLuksCapabilities_FirstOnly(caps) ==
    {"Cannot use LUKS with block volumes" :
        i \in {j \in 1 .. Len(caps) : j = 1 /\ caps[j].type = "block"}}

validateLuksCapabilities(caps) ==
    {"Cannot use LUKS with block volumes" :
        i \in {j \in 1 .. Len(caps) : caps[j].type = "block"}}

-----------------------------------------------------------------------------
(* CreateVolume                                                            *)

\* d.zone, the zone the controller is configured with
DriverZone == "dev1"

NoRequirements == [isNil |-> TRUE, Requisite |-> <<>>]

storageTypeOf(req) ==
    IF req.Parameters.type = "" THEN "ssd" ELSE req.Parameters.type

\* mutation: a requisite topology without a zone key is taken for another zone
zoneMismatch_MissingKeyMismatches(req) ==
    /\ ~req.AccessibilityRequirements.isNil
    /\ \E i \in 1 .. Len(req.AccessibilityRequirements.Requisite) :
           LET Segments == req.AccessibilityRequirements.Requisite[i]
           IN  "zone" \notin DOMAIN Segments \/ Segments.zone # DriverZone

\* some requisite topology names a zone other than the controller's
zoneMismatch(req) ==
    /\ ~req.AccessibilityRequirements.isNil
    /\ \E i \in 1 .. Len(req.AccessibilityRequirements.Requisite) :
           LET Segments == req.AccessibilityRequirements.Requisite[i]
           IN  "zone" \in DOMAIN Segments /\ Segments.zone # DriverZone

\* mutation: another zone is answered like the other faults of the request
createVolumeRejection_ZoneInvalidArgument(req) ==
    IF req.Name = "" THEN "InvalidArgument"
    ELSE IF Len(req.VolumeCapabilities) = 0 THEN "InvalidArgument"
    ELSE IF validateCapabilities(req.VolumeCapabilities) # {} THEN "InvalidArgument"
    ELSE IF zoneMismatch(req) THEN "InvalidArgument"
    ELSE IF storageTypeOf(req) \notin {"ssd", "bulk"} THEN "InvalidArgument"
    ELSE IF calculateStorageGB(req.CapacityRange, storageTypeOf(req)).err # "nil"
    THEN "InvalidArgument"
    ELSE IF /\ req.Parameters.luksEncrypted = "true"
            /\ validateLuksCapabilities(req.VolumeCapabilities) # {}
    THEN "InvalidArgument"
    ELSE "OK"

\* mutation: the type parameter is passed on as it came
createVolumeRejection_AnyType(req) ==
    IF req.Name = "" THEN "InvalidArgument"
    ELSE IF Len(req.VolumeCapabilities) = 0 THEN "InvalidArgument"
    ELSE IF validateCapabilities(req.VolumeCapabilities) # {} THEN "InvalidArgument"
    ELSE IF zoneMismatch(req) THEN "ResourceExhausted"
    ELSE IF calculateStorageGB(req.CapacityRange, storageTypeOf(req)).err # "nil"
    THEN "InvalidArgument"
    ELSE IF /\ req.Parameters.luksEncrypted = "true"
            /\ validateLuksCapabilities(req.VolumeCapabilities) # {}
    THEN "InvalidArgument"
    ELSE "OK"

\* the checks before the first remote call: the code of the error, or "OK"
createVolumeRejection(req) ==
    IF req.Name = "" THEN "InvalidArgument"
    ELSE IF Len(req.VolumeCapabilities) = 0 THEN "InvalidArgument"
    ELSE IF validateCapabilities(req.VolumeCapabilities) # {} THEN "InvalidArgument"
    ELSE IF zoneMismatch(req) THEN "ResourceExhausted"
    ELSE IF storageTypeOf(req) \notin {"ssd", "bulk"} THEN "InvalidArgument"
    ELSE IF calculateStorageGB(req.CapacityRange, storageTypeOf(req)).err # "nil"
    THEN "InvalidArgument"
    ELSE IF /\ req.Parameters.luksEncrypted = "true"
            /\ validateLuksCapabilities(req.VolumeCapabilities) # {}
    THEN "InvalidArgument"
    ELSE "OK"

\* the csi.Volume of the response, but for its VolumeId
csiVolumeOf(req, sizeGB) ==
    LET encrypted == req.Parameters.luksEncrypted = "true"
    IN  [Success EXCEPT
            !.CapacityBytes = GiB(sizeGB),
            !.Zone = DriverZone,
            !.Context =
                [name |-> req.Name,
                 luksEncrypted |-> IF encrypted THEN "true" ELSE "false",
                 luksCipher |-> IF encrypted THEN req.Parameters.luksCipher ELSE "",
                 luksKeySize |-> IF encrypted THEN req.Parameters.luksKeySize ELSE ""]]

\* mutation: a volume of the name is taken as it is, whatever its size
createVolumeFound_IgnoreSize(found, sizeGB, csiVolume) ==
    IF Cardinality(found) > 1
    THEN PlainError
    ELSE [csiVolume EXCEPT !.VolumeId = (CHOOSE v \in found : TRUE).UUID]

\* mutation: the sizes are compared the wrong way round
createVolumeFound_Inverted(found, sizeGB, csiVolume) ==
    IF Cardinality(found) > 1
    THEN PlainError
    ELSE LET vol == CHOOSE v \in found : TRUE
         IN  IF vol.SizeGB = sizeGB
             THEN StatusError("AlreadyExists")
             ELSE [csiVolume EXCEPT !.VolumeId = vol.UUID]

\* mutation: of several volumes of the name one is taken and compared
createVolumeFound_AnyMatch(found, sizeGB, csiVolume) ==
    LET vol == CHOOSE v \in found : TRUE
    IN  IF vol.SizeGB # sizeGB
        THEN StatusError("AlreadyExists")
        ELSE [csiVolume EXCEPT !.VolumeId = vol.UUID]

\* the answer when the lookup by name finds volumes
createVolumeFound(found, sizeGB, csiVolume) ==
    IF Cardinality(found) > 1
    THEN PlainError
    ELSE LET vol == CHOOSE v \in found : TRUE
         IN  IF vol.SizeGB # sizeGB
             THEN StatusError("AlreadyExists")
             ELSE [csiVolume EXCEPT !.VolumeId = vol.UUID]

\* requests that have looked the name up, found nothing and not yet created
creating == {t \in Slots : rpc[t].pc = "create"}

\* mutation: the lookup takes only volumes of the type asked for
CreateVolume_SameTypeOnly(s, req) ==
    /\ Free(s)
    /\ LET r         == Arrived(s, "CreateVolume", req)
           rejection == createVolumeRejection(req)
           sizeGB    == calculateStorageGB(req.CapacityRange, storageTypeOf(req)).size
           found     == {v \in volumesNamed(req.Name) : v.Type = storageTypeOf(req)}
           looked    == [Called(r, "List") EXCEPT !.matches = Cardinality(found)]
       IN  /\ (rejection = "OK" /\ backend = "up" /\ found = {}) =>
                  nextID + Cardinality(creating) < MaxVolumes
           /\ rpc' = [rpc EXCEPT ![s] =
                  IF rejection # "OK"
                  THEN Answered(r, StatusError(rejection))
                  ELSE IF backend # "up"
                  THEN Answered([Called(r, "List") EXCEPT !.err = backendError],
                                StatusError("Internal"))
                  ELSE IF found # {}
                  THEN Answered(looked,
                                createVolumeFound(found, sizeGB, csiVolumeOf(req, sizeGB)))
                  ELSE [looked EXCEPT !.pc = "create"]]
    /\ UNCHANGED <<volumes, nextID, capRange, storageType, calcResult, backend>>

\* the request arrives, is checked, and the name is looked up
CreateVolume(s, req) ==
    /\ Free(s)
    /\ LET r         == Arrived(s, "CreateVolume", req)
           rejection == createVolumeRejection(req)
           sizeGB    == calculateStorageGB(req.CapacityRange, storageTypeOf(req)).size
           found     == volumesNamed(req.Name)
           looked    == [Called(r, "List") EXCEPT !.matches = Cardinality(found)]
       IN  /\ (rejection = "OK" /\ backend = "up" /\ found = {}) =>
                  nextID + Cardinality(creating) < MaxVolumes
           /\ rpc' = [rpc EXCEPT ![s] =
                  IF rejection # "OK"
                  THEN Answered(r, StatusError(rejection))
                  ELSE IF backend # "up"
                  THEN Answered([Called(r, "List") EXCEPT !.err = backendError],
                                StatusError("Internal"))
                  ELSE IF found # {}
                  THEN Answered(looked,
                                createVolumeFound(found, sizeGB, csiVolumeOf(req, sizeGB)))
                  ELSE [looked EXCEPT !.pc = "create"]]
    /\ UNCHANGED <<volumes, nextID, capRange, storageType, calcResult, backend>>

\* mutation: the store keeps names unique, and answers a create for a name it
\* holds with the volume it holds
CreateVolumeCreate_UniqueNames(s) ==
    /\ rpc[s].pc = "create"
    /\ nextID < MaxVolumes
    /\ LET req    == rpc[s].req
           sizeGB == calculateStorageGB(req.CapacityRange, storageTypeOf(req)).size
           id     == nextID + 1
           found  == volumesNamed(req.Name)
           volumeReq ==
               [Name |-> req.Name, SizeGB |-> sizeGB, Type |-> storageTypeOf(req),
                Zone |-> DriverZone]
       IN  IF found # {}
           THEN /\ rpc' = [rpc EXCEPT ![s] =
                       Answered(Called(@, "Create"),
                                [csiVolumeOf(req, sizeGB) EXCEPT
                                    !.VolumeId = (CHOOSE v \in found : TRUE).UUID])]
                /\ UNCHANGED <<volumes, nextID>>
           ELSE /\ volumes' = (id :> createdVolume(id, volumeReq)) @@ volumes
                /\ nextID' = id
                /\ rpc' = [rpc EXCEPT ![s] =
                       Answered(Called(@, "Create"),
                                [csiVolumeOf(req, sizeGB) EXCEPT !.VolumeId = id])]
    /\ UNCHANGED <<capRange, storageType, calcResult, backend>>

\* mutation: the type parameter is sent as it came, not as it was resolved
CreateVolumeCreate_RequestedType(s) ==
    /\ rpc[s].pc = "create"
    /\ nextID < MaxVolumes
    /\ LET req    == rpc[s].req
           sizeGB == calculateStorageGB(req.CapacityRange, storageTypeOf(req)).size
           id     == nextID + 1
           volumeReq ==
               [Name |-> req.Name, SizeGB |-> sizeGB, Type |-> req.Parameters.type,
                Zone |-> DriverZone]
       IN  IF backend # "up"
           THEN /\ rpc' = [rpc EXCEPT ![s] =
                       Answered([Called(@, "Create") EXCEPT !.err = backendError],
                                StatusError("Internal"))]
                /\ UNCHANGED <<volumes, nextID>>
           ELSE /\ volumes' = (id :> createdVolume(id, volumeReq)) @@ volumes
                /\ nextID' = id
                /\ rpc' = [rpc EXCEPT ![s] =
                       Answered(Called(@, "Create"),
                                [csiVolumeOf(req, sizeGB) EXCEPT !.VolumeId = id])]
    /\ UNCHANGED <<capRange, storageType, calcResult, backend>>

\* nothing of the name was found: the volume is created
CreateVolumeCreate(s) ==
    /\ rpc[s].pc = "create"
    /\ nextID < MaxVolumes
    /\ LET req    == rpc[s].req
           sizeGB == calculateStorageGB(req.CapacityRange, storageTypeOf(req)).size
           id     == nextID + 1
           volumeReq ==
               [Name |-> req.Name, SizeGB |-> sizeGB, Type |-> storageTypeOf(req),
                Zone |-> DriverZone]
       IN  IF backend # "up"
           THEN /\ rpc' = [rpc EXCEPT ![s] =
                       Answered([Called(@, "Create") EXCEPT !.err = backendError],
                                StatusError("Internal"))]
                /\ UNCHANGED <<volumes, nextID>>
           ELSE /\ volumes' = (id :> createdVolume(id, volumeReq)) @@ volumes
                /\ nextID' = id
                /\ rpc' = [rpc EXCEPT ![s] =
                       Answered(Called(@, "Create"),
                                [csiVolumeOf(req, sizeGB) EXCEPT !.VolumeId = id])]
    /\ UNCHANGED <<capRange, storageType, calcResult, backend>>

-----------------------------------------------------------------------------
(* DeleteVolume                                                            *)

\* Volumes.Delete: the store forgets the volume; for a volume that is not
\* there it answers nil or, as the handler expects of the API, a 404
deleteErrors(id) ==
    IF backend # "up" THEN {backendError}
    ELSE IF id \in DOMAIN volumes THEN {ErrNil} ELSE {ErrNil, NotFoundError}

\* mutation: a 404 is returned like any other error
deleteVolumeResult_NotFoundFails(err) ==
    IF err.isNil THEN Success ELSE PlainError

deleteVolumeResult(err) ==
    IF err.isNil THEN Success
    ELSE IF err.structured /\ err.StatusCode = 404 THEN Success
    ELSE PlainError

DeleteVolume(s, req) ==
    /\ Free(s)
    /\ LET r == Arrived(s, "DeleteVolume", req)
       IN  IF req.VolumeId = EmptyID
           THEN /\ rpc' = [rpc EXCEPT ![s] = Answered(r, StatusError("InvalidArgument"))]
                /\ UNCHANGED volumes
           ELSE \E err \in deleteErrors(req.VolumeId) :
                /\ volumes' = IF err.isNil THEN without(req.VolumeId) ELSE volumes
                /\ rpc' = [rpc EXCEPT ![s] =
                       Answered([Called(r, "Delete") EXCEPT !.err = err],
                                deleteVolumeResult(err))]
    /\ UNCHANGED <<nextID, capRange, storageType, calcResult, backend>>

-----------------------------------------------------------------------------
(* ControllerPublishVolume                                                 *)

\* mutation: every answer of the API counts as "not found"
reraiseNotFound_AnyResponse(err, operation) ==
    IF err.structured
    THEN StatusError("NotFound")
    ELSE [StatusError("Aborted") EXCEPT !.label = operation]

\* the label of the operation is put in the message of an Aborted; the
\* message of a NotFound is that of the error
reraiseNotFound(err, operation) ==
    IF err.structured /\ err.StatusCode = 404
    THEN StatusError("NotFound")
    ELSE [StatusError("Aborted") EXCEPT !.label = operation]

\* mutation: the read-only flag is looked at first
publishRejection_ReadonlyFirst(req) ==
    IF req.Readonly THEN "AlreadyExists"
    ELSE IF req.VolumeId = EmptyID THEN "InvalidArgument"
    ELSE IF req.NodeId = "" THEN "InvalidArgument"
    ELSE IF req.VolumeCapability = NilCapability THEN "InvalidArgument"
    ELSE "OK"

publishRejection(req) ==
    IF req.VolumeId = EmptyID THEN "InvalidArgument"
    ELSE IF req.NodeId = "" THEN "InvalidArgument"
    ELSE IF req.VolumeCapability = NilCapability THEN "InvalidArgument"
    ELSE IF req.Readonly THEN "AlreadyExists"
    ELSE "OK"

\* mutation: the status of the error is translated before its message is read
attachFailure_StatusFirst(err) ==
    IF err.structured /\ err.StatusCode = 404
    THEN StatusError("NotFound")
    ELSE IF err.attachLimit
    THEN StatusError("ResourceExhausted")
    ELSE [StatusError("Aborted") EXCEPT !.label = "attaching volume"]

attachFailure(err) ==
    IF err.attachLimit
    THEN StatusError("ResourceExhausted")
    ELSE reraiseNotFound(err, "attaching volume")

\* the errors an attach can be answered with: a rejection for the attach
\* limit is told by its message, whatever kind of error carries it
AttachLimitErrors ==
    {AttachLimitError,
     [AttachLimitError EXCEPT !.StatusCode = 404],
     [AttachLimitError EXCEPT !.structured = FALSE, !.StatusCode = 0]}

updateServersErrors(id, serverUUIDs) ==
    IF updateServersError(id, serverUUIDs).attachLimit
    THEN AttachLimitErrors
    ELSE {updateServersError(id, serverUUIDs)}

\* mutation: the volume is attached before the request is checked
ControllerPublishVolume_AttachFirst(s, req) ==
    /\ Free(s)
    /\ \E err \in updateServersErrors(req.VolumeId, <<req.NodeId>>) :
        LET r         == Arrived(s, "ControllerPublishVolume", req)
            rejection == publishRejection(req)
            updated   == [Called(r, "Update") EXCEPT !.err = err]
        IN  IF rejection # "OK"
            THEN /\ rpc' = [rpc EXCEPT ![s] = Answered(r, StatusError(rejection))]
                 /\ volumes' = IF err.isNil
                               THEN withServers(req.VolumeId, <<req.NodeId>>)
                               ELSE volumes
            ELSE IF ~err.isNil
            THEN /\ rpc' = [rpc EXCEPT ![s] = Answered(updated, attachFailure(err))]
                 /\ UNCHANGED volumes
            ELSE /\ rpc' = [rpc EXCEPT ![s] = [updated EXCEPT !.pc = "get"]]
                 /\ volumes' = withServers(req.VolumeId, <<req.NodeId>>)
    /\ UNCHANGED <<nextID, capRange, storageType, calcResult, backend>>

\* the request arrives, is checked, and the volume is attached to the node
ControllerPublishVolume(s, req) ==
    /\ Free(s)
    /\ \E err \in updateServersErrors(req.VolumeId, <<req.NodeId>>) :
        LET r         == Arrived(s, "ControllerPublishVolume", req)
            rejection == publishRejection(req)
            updated   == [Called(r, "Update") EXCEPT !.err = err]
        IN  IF rejection # "OK"
            THEN /\ rpc' = [rpc EXCEPT ![s] = Answered(r, StatusError(rejection))]
                 /\ UNCHANGED volumes
            ELSE IF ~err.isNil
            THEN /\ rpc' = [rpc EXCEPT ![s] = Answered(updated, attachFailure(err))]
                 /\ UNCHANGED volumes
            ELSE /\ rpc' = [rpc EXCEPT ![s] = [updated EXCEPT !.pc = "get"]]
                 /\ volumes' = withServers(req.VolumeId, <<req.NodeId>>)
    /\ UNCHANGED <<nextID, capRange, storageType, calcResult, backend>>

\* mutation: a volume context that does not say "true" is answered as "false"
ControllerPublishVolumeGet_DefaultedLuks(s) ==
    /\ rpc[s].pc = "get"
    /\ LET req     == rpc[s].req
           fetched == getVolume(req.VolumeId)
           r       == [Called(rpc[s], "Get") EXCEPT
                          !.err = fetched.err, !.got = fetched.volume]
       IN  rpc' = [rpc EXCEPT ![s] =
               IF ~fetched.err.isNil
               THEN Answered(r, reraiseNotFound(fetched.err, "fetch volume"))
               ELSE Answered(r, [Success EXCEPT !.Context =
                       [name |-> fetched.volume.Name,
                        luksEncrypted |->
                            IF req.VolumeContext.luksEncrypted = "true"
                            THEN "true" ELSE "false",
                        luksCipher |-> req.VolumeContext.luksCipher,
                        luksKeySize |-> req.VolumeContext.luksKeySize]])]
    /\ UNCHANGED <<volumes, nextID, capRange, storageType, calcResult, backend>>

\* the attached volume is fetched for the publish context
ControllerPublishVolumeGet(s) ==
    /\ rpc[s].pc = "get"
    /\ LET req     == rpc[s].req
           fetched == getVolume(req.VolumeId)
           r       == [Called(rpc[s], "Get") EXCEPT
                          !.err = fetched.err, !.got = fetched.volume]
       IN  rpc' = [rpc EXCEPT ![s] =
               IF ~fetched.err.isNil
               THEN Answered(r, reraiseNotFound(fetched.err, "fetch volume"))
               ELSE Answered(r, [Success EXCEPT !.Context =
                       [name |-> fetched.volume.Name,
                        luksEncrypted |-> req.VolumeContext.luksEncrypted,
                        luksCipher |-> req.VolumeContext.luksCipher,
                        luksKeySize |-> req.VolumeContext.luksKeySize]])]
    /\ UNCHANGED <<volumes, nextID, capRange, storageType, calcResult, backend>>

-----------------------------------------------------------------------------
(* ControllerUnpublishVolume                                               *)

\* mutation: a volume that is gone is an error
unpublishGetFailure_NotFound(err) == reraiseNotFound(err, "unpublish volume")

\* the answer when the volume cannot be fetched
unpublishGetFailure(err) ==
    IF err.structured /\ err.StatusCode = 404 THEN Success ELSE PlainError

\* the request arrives, is checked, and the volume is fetched
ControllerUnpublishVolume(s, req) ==
    /\ Free(s)
    /\ LET r       == Arrived(s, "ControllerUnpublishVolume", req)
           fetched == getVolume(req.VolumeId)
           got     == [Called(r, "Get") EXCEPT !.err = fetched.err, !.got = fetched.volume]
       IN  rpc' = [rpc EXCEPT ![s] =
               IF req.VolumeId = EmptyID
               THEN Answered(r, StatusError("InvalidArgument"))
               ELSE IF ~fetched.err.isNil
               THEN Answered(got, unpublishGetFailure(fetched.err))
               ELSE [got EXCEPT !.pc = "detach"]]
    /\ UNCHANGED <<volumes, nextID, capRange, storageType, calcResult, backend>>

\* mutation: the volume is detached only from the node the request names
ControllerUnpublishVolumeUpdate_NodeScoped(s) ==
    /\ rpc[s].pc = "detach"
    /\ LET req == rpc[s].req
           err == updateServersError(req.VolumeId, <<>>)
           r   == [Called(rpc[s], "Update") EXCEPT !.err = err]
       IN  IF ~err.isNil
           THEN /\ rpc' = [rpc EXCEPT ![s] = Answered(r, reraiseNotFound(err, "unpublish volume"))]
                /\ UNCHANGED volumes
           ELSE /\ rpc' = [rpc EXCEPT ![s] = Answered(r, Success)]
                /\ volumes' = IF volumes[req.VolumeId].ServerUUIDs = <<req.NodeId>>
                            THEN withServers(req.VolumeId, <<>>)
                            ELSE volumes
    /\ UNCHANGED <<nextID, capRange, storageType, calcResult, backend>>

\* the volume is there: its server set is emptied
ControllerUnpublishVolumeUpdate(s) ==
    /\ rpc[s].pc = "detach"
    /\ LET req == rpc[s].req
           err == updateServersError(req.VolumeId, <<>>)
           r   == [Called(rpc[s], "Update") EXCEPT !.err = err]
       IN  IF ~err.isNil
           THEN /\ rpc' = [rpc EXCEPT ![s] = Answered(r, reraiseNotFound(err, "unpublish volume"))]
                /\ UNCHANGED volumes
           ELSE /\ rpc' = [rpc EXCEPT ![s] = Answered(r, Success)]
                /\ volumes' = withServers(req.VolumeId, <<>>)
    /\ UNCHANGED <<nextID, capRange, storageType, calcResult, backend>>

-----------------------------------------------------------------------------
(* ControllerExpandVolume                                                  *)

\* the Go runtime's answer to panic("implement me") in the store's Update
Panicked == [NoResponse EXCEPT !.code = "panic", !.typed = FALSE]

\* mutation: the size asked for is reported, and block volumes need no node step
expandSkipped_AsResized(req, volume, resizeGigaBytes) ==
    [Success EXCEPT !.CapacityBytes = GiB(resizeGigaBytes),
                    !.NodeExpansionRequired = req.VolumeCapability.type # "block"]

\* mutation: a skipped resize asks for no step on the node
expandSkipped_NoNodeExpansion(req, volume, resizeGigaBytes) ==
    [Success EXCEPT !.CapacityBytes = GiB(volume.SizeGB),
                    !.NodeExpansionRequired = FALSE]

\* the answer when the volume is already at least as large as asked
expandSkipped(req, volume, resizeGigaBytes) ==
    [Success EXCEPT !.CapacityBytes = GiB(volume.SizeGB),
                    !.NodeExpansionRequired = TRUE]

\* mutation: the capability is not looked at, the node step is always required
expandResized_AlwaysNodeExpansion(req, resizeGigaBytes) ==
    [Success EXCEPT !.CapacityBytes = GiB(resizeGigaBytes),
                    !.NodeExpansionRequired = TRUE]

\* the answer after a resize
expandResized(req, resizeGigaBytes) ==
    [Success EXCEPT !.CapacityBytes = GiB(resizeGigaBytes),
                    !.NodeExpansionRequired =
                        ~(req.VolumeCapability # NilCapability
                          /\ req.VolumeCapability.type = "block")]

\* mutation: the resize is skipped only when the volume is larger than asked
ControllerExpandVolume_SkipOnlySmaller(s, req) ==
    /\ Free(s)
    /\ LET r       == Arrived(s, "ControllerExpandVolume", req)
           fetched == getVolume(req.VolumeId)
           volume  == fetched.volume
           got     == [Called(r, "Get") EXCEPT !.err = fetched.err, !.got = volume]
           resize  == calculateStorageGB(req.CapacityRange, volume.Type)
       IN  rpc' = [rpc EXCEPT ![s] =
               IF req.VolumeId = EmptyID
               THEN Answered(r, StatusError("InvalidArgument"))
               ELSE IF ~fetched.err.isNil
               THEN Answered(got, StatusError("Internal"))
               ELSE IF resize.err # "nil"
               THEN Answered(got, StatusError("OutOfRange"))
               ELSE IF resize.size < volume.SizeGB
               THEN Answered(got, expandSkipped(req, volume, resize.size))
               ELSE [got EXCEPT !.pc = "resize"]]
    /\ UNCHANGED <<volumes, nextID, capRange, storageType, calcResult, backend>>

\* mutation: the range is judged for the default type, not the type of the volume
ControllerExpandVolume_DefaultType(s, req) ==
    /\ Free(s)
    /\ LET r       == Arrived(s, "ControllerExpandVolume", req)
           fetched == getVolume(req.VolumeId)
           volume  == fetched.volume
           got     == [Called(r, "Get") EXCEPT !.err = fetched.err, !.got = volume]
           resize  == calculateStorageGB(req.CapacityRange, "ssd")
       IN  rpc' = [rpc EXCEPT ![s] =
               IF req.VolumeId = EmptyID
               THEN Answered(r, StatusError("InvalidArgument"))
               ELSE IF ~fetched.err.isNil
               THEN Answered(got, StatusError("Internal"))
               ELSE IF resize.err # "nil"
               THEN Answered(got, StatusError("OutOfRange"))
               ELSE IF resize.size <= volume.SizeGB
               THEN Answered(got, expandSkipped(req, volume, resize.size))
               ELSE [got EXCEPT !.pc = "resize"]]
    /\ UNCHANGED <<volumes, nextID, capRange, storageType, calcResult, backend>>

\* the request arrives, the volume is fetched and the new size worked out
ControllerExpandVolume(s, req) ==
    /\ Free(s)
    /\ LET r       == Arrived(s, "ControllerExpandVolume", req)
           fetched == getVolume(req.VolumeId)
           volume  == fetched.volume
           got     == [Called(r, "Get") EXCEPT !.err = fetched.err, !.got = volume]
           resize  == calculateStorageGB(req.CapacityRange, volume.Type)
       IN  rpc' = [rpc EXCEPT ![s] =
               IF req.VolumeId = EmptyID
               THEN Answered(r, StatusError("InvalidArgument"))
               ELSE IF ~fetched.err.isNil
               THEN Answered(got, StatusError("Internal"))
               ELSE IF resize.err # "nil"
               THEN Answered(got, StatusError("OutOfRange"))
               ELSE IF resize.size <= volume.SizeGB
               THEN Answered(got, expandSkipped(req, volume, resize.size))
               ELSE [got EXCEPT !.pc = "resize"]]
    /\ UNCHANGED <<volumes, nextID, capRange, storageType, calcResult, backend>>

\* mutation: the store takes the size it is told, smaller or not
ControllerExpandVolumeUpdate_AnySize(s) ==
    /\ rpc[s].pc = "resize"
    /\ LET req    == rpc[s].req
           volume == rpc[s].got
           resize == calculateStorageGB(req.CapacityRange, volume.Type).size
           r      == Called(rpc[s], "Update")
       IN  IF backend # "up"
           THEN /\ rpc' = [rpc EXCEPT ![s] =
                       Answered([r EXCEPT !.err = backendError], StatusError("Internal"))]
                /\ UNCHANGED volumes
           ELSE IF volume.UUID \notin DOMAIN volumes
           THEN /\ rpc' = [rpc EXCEPT ![s] =
                       Answered([r EXCEPT !.err = NotFoundError], StatusError("Internal"))]
                /\ UNCHANGED volumes
           ELSE IF volumes[volume.UUID].SizeGB # resize
           THEN /\ rpc' = [rpc EXCEPT ![s] = Answered(r, expandResized(req, resize))]
                /\ volumes' = withSize(volume.UUID, resize)
           ELSE /\ rpc' = [rpc EXCEPT ![s] = Answered(r, Panicked)]
                /\ UNCHANGED volumes
    /\ UNCHANGED <<nextID, capRange, storageType, calcResult, backend>>

\* mutation: a resize the API did not take is sent again
ControllerExpandVolumeUpdate_Retry(s) ==
    /\ rpc[s].pc = "resize"
    /\ LET req    == rpc[s].req
           volume == rpc[s].got
           resize == calculateStorageGB(req.CapacityRange, volume.Type).size
           r      == Called(rpc[s], "Update")
       IN  IF backend # "up"
           THEN /\ rpc' = [rpc EXCEPT ![s] =
                       [r EXCEPT !.err = backendError]]
                /\ UNCHANGED volumes
           ELSE IF volume.UUID \notin DOMAIN volumes
           THEN /\ rpc' = [rpc EXCEPT ![s] =
                       Answered([r EXCEPT !.err = NotFoundError], StatusError("Internal"))]
                /\ UNCHANGED volumes
           ELSE IF volumes[volume.UUID].SizeGB < resize
           THEN /\ rpc' = [rpc EXCEPT ![s] = Answered(r, expandResized(req, resize))]
                /\ volumes' = withSize(volume.UUID, resize)
           ELSE /\ rpc' = [rpc EXCEPT ![s] = Answered(r, Panicked)]
                /\ UNCHANGED volumes
    /\ UNCHANGED <<nextID, capRange, storageType, calcResult, backend>>

\* the volume is smaller than asked: the store is told the new size
ControllerExpandVolumeUpdate(s) ==
    /\ rpc[s].pc = "resize"
    /\ LET req    == rpc[s].req
           volume == rpc[s].got
           resize == calculateStorageGB(req.CapacityRange, volume.Type).size
           r      == Called(rpc[s], "Update")
       IN  IF backend # "up"
           THEN /\ rpc' = [rpc EXCEPT ![s] =
                       Answered([r EXCEPT !.err = backendError], StatusError("Internal"))]
                /\ UNCHANGED volumes
           ELSE IF volume.UUID \notin DOMAIN volumes
           THEN /\ rpc' = [rpc EXCEPT ![s] =
                       Answered([r EXCEPT !.err = NotFoundError], StatusError("Internal"))]
                /\ UNCHANGED volumes
           ELSE IF volumes[volume.UUID].SizeGB < resize
           THEN /\ rpc' = [rpc EXCEPT ![s] = Answered(r, expandResized(req, resize))]
                /\ volumes' = withSize(volume.UUID, resize)
           ELSE /\ rpc' = [rpc EXCEPT ![s] = Answered(r, Panicked)]
                /\ UNCHANGED volumes
    /\ UNCHANGED <<nextID, capRange, storageType, calcResult, backend>>

-----------------------------------------------------------------------------
(* ValidateVolumeCapabilities, ListVolumes and the operations not offered  *)

\* the one capability the answer confirms: the supported access mode, no access type
ConfirmedCapabilities == <<[mode |-> SingleNodeWriter, type |-> "none"]>>

\* mutation: the capabilities asked for are checked against the supported ones
ValidateVolumeCapabilities_Checked(s, req) ==
    /\ Free(s)
    /\ LET r       == Arrived(s, "ValidateVolumeCapabilities", req)
           fetched == getVolume(req.VolumeId)
           got     == [Called(r, "Get") EXCEPT !.err = fetched.err]
       IN  rpc' = [rpc EXCEPT ![s] =
               IF req.VolumeId = EmptyID
               THEN Answered(r, StatusError("InvalidArgument"))
               ELSE IF req.CapabilitiesNil
               THEN Answered(r, StatusError("InvalidArgument"))
               ELSE IF validateCapabilities(req.VolumeCapabilities) # {}
               THEN Answered(r, StatusError("InvalidArgument"))
               ELSE IF ~fetched.err.isNil
               THEN Answered(got, reraiseNotFound(fetched.err, "fetch volume to validate capabilities"))
               ELSE Answered(got, [Success EXCEPT !.Confirmed = ConfirmedCapabilities])]
    /\ UNCHANGED <<volumes, nextID, capRange, storageType, calcResult, backend>>

\* the request arrives, is checked, and the volume is fetched
ValidateVolumeCapabilities(s, req) ==
    /\ Free(s)
    /\ LET r       == Arrived(s, "ValidateVolumeCapabilities", req)
           fetched == getVolume(req.VolumeId)
           got     == [Called(r, "Get") EXCEPT !.err = fetched.err]
       IN  rpc' = [rpc EXCEPT ![s] =
               IF req.VolumeId = EmptyID
               THEN Answered(r, StatusError("InvalidArgument"))
               ELSE IF req.CapabilitiesNil
               THEN Answered(r, StatusError("InvalidArgument"))
               ELSE IF ~fetched.err.isNil
               THEN Answered(got, reraiseNotFound(fetched.err, "fetch volume to validate capabilities"))
               ELSE Answered(got, [Success EXCEPT !.Confirmed = ConfirmedCapabilities])]
    /\ UNCHANGED <<volumes, nextID, capRange, storageType, calcResult, backend>>

\* Volumes.List without a filter: the volumes of the store in an order of its choosing
listings ==
    {order \in [1 .. Cardinality(DOMAIN volumes) -> DOMAIN volumes] :
        \A i, j \in DOMAIN order : i # j => order[i] # order[j]}

\* mutation: the listing stops after one entry
entriesOf_OnePage(order) ==
    [i \in DOMAIN order \cap {1} |->
        [VolumeId |-> volumes[order[i]].UUID,
         CapacityBytes |-> GiB(volumes[order[i]].SizeGB)]]

entriesOf(order) ==
    [i \in DOMAIN order |->
        [VolumeId |-> volumes[order[i]].UUID,
         CapacityBytes |-> GiB(volumes[order[i]].SizeGB)]]

\* mutation: the volumes are listed before the token is looked at
ListVolumes_ListsFirst(s, req) ==
    /\ Free(s)
    /\ LET r      == Arrived(s, "ListVolumes", req)
           listed == Called(r, "List")
       IN  \E order \in listings :
               rpc' = [rpc EXCEPT ![s] =
                   IF backend # "up"
                   THEN Answered([listed EXCEPT !.err = backendError], PlainError)
                   ELSE IF req.StartingToken # ""
                   THEN Answered(listed, StatusError("Aborted"))
                   ELSE Answered(listed, [Success EXCEPT !.Entries = entriesOf(order)])]
    /\ UNCHANGED <<volumes, nextID, capRange, storageType, calcResult, backend>>

\* the token is checked and the volumes are listed
ListVolumes(s, req) ==
    /\ Free(s)
    /\ LET r      == Arrived(s, "ListVolumes", req)
           listed == Called(r, "List")
       IN  \E order \in listings :
               rpc' = [rpc EXCEPT ![s] =
                   IF req.StartingToken # ""
                   THEN Answered(r, StatusError("Aborted"))
                   ELSE IF backend # "up"
                   THEN Answered([listed EXCEPT !.err = backendError], PlainError)
                   ELSE Answered(listed, [Success EXCEPT !.Entries = entriesOf(order)])]
    /\ UNCHANGED <<volumes, nextID, capRange, storageType, calcResult, backend>>

\* mutation: the volume the request names is fetched before the refusal
unimplemented_Fetches(s, op, req) ==
    /\ Free(s)
    /\ rpc' = [rpc EXCEPT ![s] =
           Answered(IF req.VolumeId \in DOMAIN volumes
                    THEN Called(Arrived(s, op, req), "Get")
                    ELSE Arrived(s, op, req),
                    StatusError("Unimplemented"))]
    /\ UNCHANGED <<volumes, nextID, capRange, storageType, calcResult, backend>>

\* status.Error(codes.Unimplemented, "") and nothing else
unimplemented(s, op, req) ==
    /\ Free(s)
    /\ rpc' = [rpc EXCEPT ![s] =
           Answered(Arrived(s, op, req), StatusError("Unimplemented"))]
    /\ UNCHANGED <<volumes, nextID, capRange, storageType, calcResult, backend>>

GetCapacity(s, req) == unimplemented(s, "GetCapacity", req)

CreateSnapshot(s, req) == unimplemented(s, "CreateSnapshot", req)

DeleteSnapshot(s, req) == unimplemented(s, "DeleteSnapshot", req)

ListSnapshots(s, req) == unimplemented(s, "ListSnapshots", req)

ControllerGetVolume(s, req) == unimplemented(s, "ControllerGetVolume", req)

\* the capabilities the controller announces, in the order it lists them
controllerCapabilities ==
    <<"CREATE_DELETE_VOLUME", "PUBLISH_UNPUBLISH_VOLUME", "LIST_VOLUMES",
      "EXPAND_VOLUME">>

ControllerGetCapabilities(s) ==
    /\ Free(s)
    /\ rpc' = [rpc EXCEPT ![s] =
           Answered(Arrived(s, "ControllerGetCapabilities", NoRequest),
                    [Success EXCEPT !.Capabilities = controllerCapabilities])]
    /\ UNCHANGED <<volumes, nextID, capRange, storageType, calcResult, backend>>

-----------------------------------------------------------------------------
(* The API as the client finds it                                          *)

BackendFails ==
    /\ backend = "up"
    /\ backend' \in {"failing", "unreachable"}
    /\ UNCHANGED <<volumes, nextID, rpc, capRange, storageType, calcResult>>

BackendRecovers ==
    /\ backend # "up"
    /\ backend' = "up"
    /\ UNCHANGED <<volumes, nextID, rpc, capRange, storageType, calcResult>>

-----------------------------------------------------------------------------
(* Requests tried on the controller                                        *)

Names == {"a", "b"}

Required(x) == [isNil |-> FALSE, required |-> x, limit |-> ZeroBytes]
Limit(x) == [isNil |-> FALSE, required |-> ZeroBytes, limit |-> x]
Between(x, y) == [isNil |-> FALSE, required |-> x, limit |-> y]

NoParameters ==
    [type |-> "", luksEncrypted |-> "", luksCipher |-> "", luksKeySize |-> ""]

LuksParameters ==
    [type |-> "", luksEncrypted |-> "true", luksCipher |-> "aes-xts-plain64",
     luksKeySize |-> "512"]

Requisite(topologies) == [isNil |-> FALSE, Requisite |-> topologies]

CreateRequest(name, type, range) ==
    [Name |-> name, VolumeCapabilities |-> <<Mount>>,
     AccessibilityRequirements |-> NoRequirements,
     Parameters |-> [NoParameters EXCEPT !.type = type],
     CapacityRange |-> range]

\* requests that differ in what the store gets to see
PlainCreateRequests ==
    {CreateRequest(n, t, r) :
        n \in Names, t \in {"", "bulk"}, r \in {NilRange, Required(Bytes(100, 1))}}
    \cup {CreateRequest("a", "", Limit(GiB(200)))}

\* requests that differ from CreateRequest("a", "", NilRange) in one more field
OtherCreateRequests ==
    LET base == CreateRequest("a", "", NilRange)
    IN  {[base EXCEPT !.Name = ""],
         [base EXCEPT !.VolumeCapabilities = <<>>],
         [base EXCEPT !.VolumeCapabilities = <<Block>>],
         [base EXCEPT !.VolumeCapabilities = <<Mount, Block>>],
         [base EXCEPT !.VolumeCapabilities = <<MultiWriterMount>>],
         [base EXCEPT !.VolumeCapabilities = <<Mount, UntypedCapability>>],
         [base EXCEPT !.AccessibilityRequirements = Requisite(<<[zone |-> DriverZone]>>)],
         [base EXCEPT !.AccessibilityRequirements = Requisite(<<[zone |-> "other"]>>)],
         [base EXCEPT !.AccessibilityRequirements = Requisite(<<[region |-> "other"]>>)],
         [base EXCEPT !.Parameters.type = "ssd"],
         [base EXCEPT !.Parameters.type = "nvme"],
         [base EXCEPT !.Parameters = LuksParameters],
         [base EXCEPT !.Parameters = LuksParameters, !.VolumeCapabilities = <<Block>>],
         [base EXCEPT !.Parameters = LuksParameters,
                      !.VolumeCapabilities = <<Mount, Block>>],
         [base EXCEPT !.Parameters.luksEncrypted = "yes", !.VolumeCapabilities = <<Block>>],
         [base EXCEPT !.CapacityRange = Between(GiB(2), GiB(1))],
         [base EXCEPT !.CapacityRange = Required(GiB(100))],
         [base EXCEPT !.AccessibilityRequirements =
                          Requisite(<<[region |-> "other"], [zone |-> "other"]>>)],
         [base EXCEPT !.AccessibilityRequirements = Requisite(<<[zone |-> "other"]>>),
                      !.Name = ""],
         [base EXCEPT !.AccessibilityRequirements = Requisite(<<[zone |-> "other"]>>),
                      !.Parameters.type = "nvme"],
         [base EXCEPT !.AccessibilityRequirements = Requisite(<<[zone |-> "other"]>>),
                      !.CapacityRange = Between(GiB(2), GiB(1))]}

CreateVolumeRequests == PlainCreateRequests \cup OtherCreateRequests

VolumeIds == 0 .. MaxVolumes

DeleteVolumeRequests == {[VolumeId |-> id] : id \in VolumeIds}

NoVolumeContext == [luksEncrypted |-> "", luksCipher |-> "", luksKeySize |-> ""]

LuksVolumeContext ==
    [luksEncrypted |-> "true", luksCipher |-> "aes-xts-plain64", luksKeySize |-> "512"]

\* a volume context no CreateVolume would have answered
UncheckedVolumeContext ==
    [luksEncrypted |-> "maybe", luksCipher |-> "", luksKeySize |-> "-1"]

PublishRequest(id, node) ==
    [VolumeId |-> id, NodeId |-> node, VolumeCapability |-> Mount,
     Readonly |-> FALSE, VolumeContext |-> NoVolumeContext]

PublishRequests ==
    {PublishRequest(id, "n1") : id \in 1 .. MaxVolumes} \cup {PublishRequest(1, "n9")}

\* requests that differ from PublishRequest(1, "n1") in the fields that are checked
OtherPublishRequests ==
    LET base == PublishRequest(1, "n1")
    IN  {[base EXCEPT !.Readonly = TRUE],
         [base EXCEPT !.VolumeId = EmptyID],
         [base EXCEPT !.NodeId = ""],
         [base EXCEPT !.VolumeCapability = NilCapability],
         [base EXCEPT !.VolumeId = EmptyID, !.Readonly = TRUE],
         [base EXCEPT !.NodeId = "", !.Readonly = TRUE],
         [base EXCEPT !.VolumeCapability = NilCapability, !.Readonly = TRUE],
         [base EXCEPT !.VolumeContext = LuksVolumeContext],
         [base EXCEPT !.VolumeContext = UncheckedVolumeContext]}

UnpublishRequests == [VolumeId : VolumeIds, NodeId : {"n1"}]

ExpandRequest(id, range, capability) ==
    [VolumeId |-> id, CapacityRange |-> range, VolumeCapability |-> capability]

ExpandRequests ==
    {ExpandRequest(id, r, Mount) :
        id \in VolumeIds,
        r \in {NilRange, Required(Bytes(100, 1)), Between(GiB(2), GiB(1))}}
    \cup {ExpandRequest(1, r, c) :
              r \in {NilRange, Required(Bytes(100, 1))}, c \in {NilCapability, Block}}
    \cup {ExpandRequest(1, Limit(GiB(200)), Mount)}

\* the requests tried two at a time
ConcurrentCreateRequests ==
    {CreateRequest("a", "", r) : r \in {NilRange, Required(GiB(2))}}

ConcurrentPublishRequests ==
    {PublishRequest(id, "n1") : id \in 1 .. MaxVolumes} \cup {PublishRequest(1, "n2")}

ConcurrentUnpublishRequests == [VolumeId : 1 .. MaxVolumes, NodeId : {"n1"}]

ConcurrentDeleteRequests == {[VolumeId |-> id] : id \in 1 .. MaxVolumes}

ConcurrentExpandRequests ==
    {ExpandRequest(id, Required(GiB(2)), Mount) : id \in 1 .. MaxVolumes}

-----------------------------------------------------------------------------
(* Specifications                                                          *)

NotCalled == [size |-> 0, err |-> "not called"]

DriverIdle ==
    /\ volumes = <<>>
    /\ nextID = 0
    /\ backend = "up"
    /\ rpc = [s \in Slots |-> IdleRPC]

CalcIdle ==
    /\ capRange = NilRange
    /\ storageType = "ssd"
    /\ calcResult = NotCalled

\* calculateStorageGB alone, on every capacity range and type of the input sets
InitCalc ==
    /\ DriverIdle
    /\ capRange \in CapacityRanges
    /\ storageType \in StorageTypes
    /\ calcResult = NotCalled

Calculate ==
    /\ calcResult = NotCalled
    /\ calcResult' = calculateStorageGB(capRange, storageType)
    /\ UNCHANGED <<volumes, nextID, rpc, capRange, storageType, backend>>

NextCalc == Calculate

SpecCalc == InitCalc /\ [][NextCalc]_vars

Init == DriverIdle /\ CalcIdle

\* one request after the other: each is answered before the next arrives
NextSeq ==
    \/ \E req \in PlainCreateRequests : CreateVolume(1, req)
    \/ CreateVolumeCreate(1)
    \/ \E req \in DeleteVolumeRequests : DeleteVolume(1, req)
    \/ \E req \in PublishRequests : ControllerPublishVolume(1, req)
    \/ ControllerPublishVolumeGet(1)
    \/ \E req \in UnpublishRequests : ControllerUnpublishVolume(1, req)
    \/ ControllerUnpublishVolumeUpdate(1)
    \/ \E req \in ExpandRequests : ControllerExpandVolume(1, req)
    \/ ControllerExpandVolumeUpdate(1)

SpecSeq == Init /\ [][NextSeq]_vars

\* one request after the other, on volumes of one name: the requests that
\* differ in the arguments the handlers check
CheckedCreateRequests ==
    {CreateRequest("a", t, NilRange) : t \in {"", "bulk"}} \cup OtherCreateRequests

CheckedPublishRequests == {PublishRequest(1, "n1")} \cup OtherPublishRequests

NextArgs ==
    \/ \E req \in CheckedCreateRequests : CreateVolume(1, req)
    \/ CreateVolumeCreate(1)
    \/ \E req \in ConcurrentDeleteRequests : DeleteVolume(1, req)
    \/ \E req \in CheckedPublishRequests : ControllerPublishVolume(1, req)
    \/ ControllerPublishVolumeGet(1)

SpecArgs == Init /\ [][NextArgs]_vars

\* every operation, one request after the other, on an API that is up or not
ValidateRequests ==
    {[VolumeId |-> id, CapabilitiesNil |-> FALSE, VolumeCapabilities |-> caps] :
        id \in {EmptyID, 1}, caps \in {<<Mount>>, <<MultiWriterMount, UntypedCapability>>}}
    \cup {[VolumeId |-> 1, CapabilitiesNil |-> TRUE, VolumeCapabilities |-> <<>>],
          [VolumeId |-> 1, CapabilitiesNil |-> FALSE, VolumeCapabilities |-> <<>>]}

ListVolumesRequests == {[StartingToken |-> t] : t \in {"", "1"}}

OtherRequests == {[VolumeId |-> id] : id \in {EmptyID, 1}}

AllCreateRequests ==
    {CreateRequest(n, "", NilRange) : n \in Names}
    \cup {CreateRequest("a", "bulk", NilRange),
          [CreateRequest("a", "", NilRange) EXCEPT !.Name = ""],
          [CreateRequest("a", "", NilRange) EXCEPT !.Parameters = LuksParameters],
          [CreateRequest("a", "", NilRange) EXCEPT
              !.Parameters = LuksParameters, !.VolumeCapabilities = <<Mount, Block>>],
          [CreateRequest("a", "", NilRange) EXCEPT !.VolumeCapabilities = <<Block>>],
          [CreateRequest("a", "", NilRange) EXCEPT
              !.AccessibilityRequirements = Requisite(<<[zone |-> "other"]>>)],
          CreateRequest("a", "nvme", NilRange),
          CreateRequest("a", "", Between(GiB(2), GiB(1)))}

AllDeleteRequests == {[VolumeId |-> id] : id \in {EmptyID, 1}}

AllPublishRequests ==
    {PublishRequest(1, "n1"),
     [PublishRequest(1, "n1") EXCEPT !.Readonly = TRUE],
     [PublishRequest(1, "n1") EXCEPT !.VolumeId = EmptyID],
     [PublishRequest(1, "n1") EXCEPT !.VolumeCapability = NilCapability]}

AllUnpublishRequests == [VolumeId : {EmptyID, 1}, NodeId : {"n1"}]

AllExpandRequests ==
    {ExpandRequest(id, r, Mount) :
        id \in {EmptyID, 1},
        r \in {Required(GiB(2)), Between(GiB(2), GiB(1)), Between(GiB(1), GiB(3))}}

NextAll ==
    \/ \E req \in AllCreateRequests : CreateVolume(1, req)
    \/ CreateVolumeCreate(1)
    \/ \E req \in AllDeleteRequests : DeleteVolume(1, req)
    \/ \E req \in AllPublishRequests : ControllerPublishVolume(1, req)
    \/ ControllerPublishVolumeGet(1)
    \/ \E req \in AllUnpublishRequests : ControllerUnpublishVolume(1, req)
    \/ ControllerUnpublishVolumeUpdate(1)
    \/ \E req \in AllExpandRequests : ControllerExpandVolume(1, req)
    \/ ControllerExpandVolumeUpdate(1)
    \/ \E req \in ValidateRequests : ValidateVolumeCapabilities(1, req)
    \/ \E req \in ListVolumesRequests : ListVolumes(1, req)
    \/ \E req \in OtherRequests : GetCapacity(1, req)
    \/ \E req \in OtherRequests : CreateSnapshot(1, req)
    \/ \E req \in OtherRequests : DeleteSnapshot(1, req)
    \/ \E req \in OtherRequests : ListSnapshots(1, req)
    \/ \E req \in OtherRequests : ControllerGetVolume(1, req)
    \/ ControllerGetCapabilities(1)
    \/ BackendFails
    \/ BackendRecovers

SpecAll == Init /\ [][NextAll]_vars

\* CreateVolume alone, two requests at a time, on an API that is up or not
RacingCreateRequests ==
    {CreateRequest("a", t, NilRange) : t \in {"", "bulk"}}
    \cup {[CreateRequest("a", "", NilRange) EXCEPT !.VolumeCapabilities = <<>>]}

NextCreate ==
    \/ \E s \in Slots, req \in RacingCreateRequests : CreateVolume(s, req)
    \/ \E s \in Slots : CreateVolumeCreate(s)
    \/ DeleteVolume(1, [VolumeId |-> 1])
    \/ BackendFails
    \/ BackendRecovers

SpecCreate == Init /\ [][NextCreate]_vars

\* expansions of one volume to two sizes, two requests at a time
RacingExpandRequests ==
    {ExpandRequest(1, Required(GiB(n)), capability) :
        n \in {2, 3}, capability \in {Mount, Block}}

NextExpand ==
    \/ CreateVolume(1, CreateRequest("a", "", NilRange))
    \/ CreateVolumeCreate(1)
    \/ \E s \in Slots, req \in RacingExpandRequests : ControllerExpandVolume(s, req)
    \/ \E s \in Slots : ControllerExpandVolumeUpdate(s)

SpecExpand == Init /\ [][NextExpand]_vars

\* a volume is made, attached and deleted by one caller while another detaches it
DetachRequests == [VolumeId : {EmptyID, 1}, NodeId : {"n1", "n2", ""}]

NextDetach ==
    \/ CreateVolume(1, CreateRequest("a", "", NilRange))
    \/ CreateVolumeCreate(1)
    \/ ControllerPublishVolume(1, PublishRequest(1, "n1"))
    \/ ControllerPublishVolumeGet(1)
    \/ DeleteVolume(1, [VolumeId |-> 1])
    \/ \E req \in DetachRequests : ControllerUnpublishVolume(2, req)
    \/ ControllerUnpublishVolumeUpdate(2)

SpecDetach == Init /\ [][NextDetach]_vars

\* two requests at a time, their remote calls interleaved
Next ==
    \/ \E s \in Slots, req \in ConcurrentCreateRequests : CreateVolume(s, req)
    \/ \E s \in Slots : CreateVolumeCreate(s)
    \/ \E s \in Slots, req \in ConcurrentDeleteRequests : DeleteVolume(s, req)
    \/ \E s \in Slots, req \in ConcurrentPublishRequests : ControllerPublishVolume(s, req)
    \/ \E s \in Slots : ControllerPublishVolumeGet(s)
    \/ \E s \in Slots, req \in ConcurrentUnpublishRequests : ControllerUnpublishVolume(s, req)
    \/ \E s \in Slots : ControllerUnpublishVolumeUpdate(s)
    \/ \E s \in Slots, req \in ConcurrentExpandRequests : ControllerExpandVolume(s, req)
    \/ \E s \in Slots : ControllerExpandVolumeUpdate(s)

Spec == Init /\ [][Next]_vars

-----------------------------------------------------------------------------
(* Properties of calculateStorageGB (checked under SpecCalc)               *)

Calculated == calcResult # NotCalled

RequiredSet == ~capRange.isNil /\ BytesLess(ZeroBytes, capRange.required)
LimitSet == ~capRange.isNil /\ BytesLess(ZeroBytes, capRange.limit)

\* the allocation step the documentation gives each storage type
StepOf(type) == IF type = "bulk" THEN 100 ELSE 1

\* x <= y on byte counts
BytesAtMost(x, y) == ~BytesLess(y, x)

\* the smallest multiple of step whose size in bytes is at least x
LeastMultipleCovering(x, step) ==
    CHOOSE n \in {k * step : k \in 0 .. (x.gb \div step) + 1} :
        /\ BytesAtMost(x, GiB(n))
        /\ \A k \in 0 .. (x.gb \div step) + 1 :
               BytesAtMost(x, GiB(k * step)) => n <= k * step

\* C6: with only a required minimum, calculateStorageGB returns the smallest
\* multiple of the type's step (1 for ssd, 100 for bulk) whose size in bytes
\* is at least the required size; 4 GiB on ssd gives 4, 150 GiB on bulk 200.
C6_RequiredOnlyRoundsUp ==
    (Calculated /\ RequiredSet /\ ~LimitSet) =>
        /\ calcResult.err = "nil"
        /\ calcResult.size % StepOf(storageType) = 0
        /\ BytesAtMost(capRange.required, GiB(calcResult.size))
        /\ BytesLess(GiB(calcResult.size - StepOf(storageType)), capRange.required)
        /\ (capRange.required = GiB(4) /\ storageType = "ssd") => calcResult.size = 4
        /\ (capRange.required = GiB(150) /\ storageType = "bulk") => calcResult.size = 200

C6_Witness ==
    /\ Calculated /\ RequiredSet /\ ~LimitSet
    /\ capRange.required = GiB(150) /\ storageType = "bulk"
    /\ calcResult = Ok(200)

\* C7: with only a limit, calculateStorageGB fails if the limit is below one
\* step of the type and otherwise returns exactly one step.
C7_LimitOnlyOneStep ==
    (Calculated /\ LimitSet /\ ~RequiredSet) =>
        IF BytesLess(capRange.limit, GiB(StepOf(storageType)))
        THEN calcResult.err # "nil"
        ELSE calcResult = Ok(StepOf(storageType))

\* C8: with required and limit both set, calculateStorageGB fails if
\* limit < required, if the limit is below one step, or if the step-rounded
\* size R exceeds the limit; otherwise it returns R, and
\* required <= R * GB <= limit.
C8_BothSet ==
    (Calculated /\ RequiredSet /\ LimitSet) =>
        LET step == StepOf(storageType)
            R    == LeastMultipleCovering(capRange.required, step)
        IN  IF \/ BytesLess(capRange.limit, capRange.required)
               \/ BytesLess(capRange.limit, GiB(step))
               \/ BytesLess(capRange.limit, GiB(R))
            THEN calcResult.err # "nil"
            ELSE /\ calcResult = Ok(R)
                 /\ BytesAtMost(capRange.required, GiB(calcResult.size))
                 /\ BytesAtMost(GiB(calcResult.size), capRange.limit)

C8_Witness ==
    /\ Calculated /\ RequiredSet /\ LimitSet
    /\ storageType = "bulk"
    /\ capRange.required = Bytes(100, 1) /\ capRange.limit = GiB(200)
    /\ calcResult = Ok(200)

\* C9: with no capacity range (nil, or required and limit both zero)
\* calculateStorageGB returns exactly one step of the type and never fails.
C9_NoRangeOneStep ==
    (Calculated /\ ~RequiredSet /\ ~LimitSet) => calcResult = Ok(StepOf(storageType))

C9_Witness ==
    /\ Calculated /\ capRange.isNil /\ storageType = "bulk"
    /\ calcResult = Ok(100)

-----------------------------------------------------------------------------
(* Properties of the controller                                            *)

\* the request of slot s has just arrived in this step
Arrives(s, op) ==
    /\ Free(s)
    /\ rpc'[s] # rpc[s]
    /\ rpc'[s].op = op

\* the size CreateVolume negotiates for a request
negotiated(req) == calculateStorageGB(req.CapacityRange, storageTypeOf(req))

\* C1: for sequential callers, a CreateVolume that follows a successful
\* CreateVolume with identical arguments, nothing served in between, succeeds,
\* returns the same volume ID, issues no remote Create, and the store holds
\* exactly one volume of that name.
C1_CreateVolumeIdempotent ==
    \A s \in Slots :
        (/\ rpc[s].op = "CreateVolume"
         /\ rpc[s].prev.same
         /\ rpc[s].prev.resp.code = "OK") =>
            /\ rpc[s].pc = "done"
            /\ rpc[s].resp.code = "OK"
            /\ rpc[s].resp.VolumeId = rpc[s].prev.resp.VolumeId
            /\ rpc[s].calls = <<"List">>
            /\ Cardinality(volumesNamed(rpc[s].req.Name)) = 1

C1_Witness ==
    \E s \in Slots :
        /\ rpc[s].op = "CreateVolume" /\ rpc[s].pc = "done"
        /\ rpc[s].prev.same /\ rpc[s].prev.resp.code = "OK"
        /\ rpc[s].req = CreateRequest("b", "bulk", Required(Bytes(100, 1)))
        /\ rpc[s].resp.code = "OK"
        /\ rpc[s].resp.VolumeId = 2
        /\ Cardinality(DOMAIN volumes) = 2

\* C2: a CreateVolume whose name matches exactly one volume of the store, of
\* a size other than the one negotiated for the request, fails with
\* AlreadyExists, issues no remote Create or Update, and leaves the store as
\* it was.
C2_SizeConflictAlreadyExists ==
    [][\A s \in Slots :
          LET req   == rpc'[s].req
              found == volumesNamed(req.Name)
          IN  (/\ Arrives(s, "CreateVolume")
               /\ createVolumeRejection(req) = "OK"
               /\ Cardinality(found) = 1
               /\ \A v \in found : v.SizeGB # negotiated(req).size) =>
                  /\ rpc'[s].pc = "done"
                  /\ rpc'[s].resp = StatusError("AlreadyExists")
                  /\ rpc'[s].calls = <<"List">>
                  /\ volumes' = volumes]_vars

C2_Witness ==
    \E s \in Slots :
        /\ rpc[s].op = "CreateVolume" /\ rpc[s].pc = "done"
        /\ rpc[s].resp.code = "AlreadyExists"
        /\ rpc[s].matches = 1
        /\ \E v \in volumesNamed(rpc[s].req.Name) :
               /\ v.ServerUUIDs = <<"n1">>
               /\ v.Type = "bulk"
               /\ v.SizeGB # negotiated(rpc[s].req).size

\* a CreateVolume that found no volume of the name, created one and succeeded
ColdCreate(s) ==
    /\ rpc[s].op = "CreateVolume" /\ rpc[s].pc = "done"
    /\ rpc[s].resp.code = "OK"
    /\ rpc[s].matches = 0
    /\ rpc[s].calls = <<"List", "Create">>

\* C3: the lookup by name and the remote Create are not atomic: two
\* CreateVolume calls of one name that both found no volume and both created
\* one return different volume IDs, and while both volumes exist the store
\* holds two volumes of that name.  (The witness is the interleaving.)
C3_ConcurrentCreatesDuplicate ==
    \A s, t \in Slots :
        (/\ s # t
         /\ ColdCreate(s) /\ ColdCreate(t)
         /\ rpc[s].req.Name = rpc[t].req.Name) =>
            /\ rpc[s].resp.VolumeId # rpc[t].resp.VolumeId
            /\ {rpc[s].resp.VolumeId, rpc[t].resp.VolumeId} \subseteq DOMAIN volumes =>
                   Cardinality(volumesNamed(rpc[s].req.Name)) >= 2

C3_Witness ==
    /\ ColdCreate(1) /\ ColdCreate(2)
    /\ rpc[1].req.Name = rpc[2].req.Name
    /\ rpc[1].resp.VolumeId # rpc[2].resp.VolumeId
    /\ DOMAIN volumes = {rpc[1].resp.VolumeId, rpc[2].resp.VolumeId}
    /\ Cardinality(volumesNamed(rpc[1].req.Name)) = 2

\* C4: DeleteVolume of a non-empty volume ID succeeds whether the volume is
\* there (and then no volume of that ID is left) or the store reports that it
\* is not found; so it succeeds however often it is repeated.
C4_DeleteVolumeIdempotent ==
    \A s \in Slots :
        (/\ rpc[s].op = "DeleteVolume" /\ rpc[s].pc = "done"
         /\ rpc[s].req.VolumeId # EmptyID) =>
            /\ rpc[s].resp = Success
            /\ rpc[s].req.VolumeId \notin DOMAIN volumes

C4_Witness ==
    \E s \in Slots :
        /\ rpc[s].op = "DeleteVolume" /\ rpc[s].pc = "done"
        /\ rpc[s].req.VolumeId = 1 /\ nextID >= 1
        /\ rpc[s].prev.same /\ rpc[s].prev.resp = Success
        /\ rpc[s].err = NotFoundError
        /\ rpc[s].resp = Success

\* C5: ControllerUnpublishVolume of a volume ID that is not in the store
\* succeeds, issues no remote Update, and leaves the store as it was.
C5_UnpublishAbsentVolume ==
    [][\A s \in Slots :
          (/\ Arrives(s, "ControllerUnpublishVolume")
           /\ rpc'[s].req.VolumeId # EmptyID
           /\ rpc'[s].req.VolumeId \notin DOMAIN volumes) =>
              /\ rpc'[s].pc = "done"
              /\ rpc'[s].resp = Success
              /\ rpc'[s].calls = <<"Get">>
              /\ volumes' = volumes]_vars

C5_Witness ==
    \E s \in Slots :
        /\ rpc[s].op = "ControllerUnpublishVolume" /\ rpc[s].pc = "done"
        /\ rpc[s].req.VolumeId # EmptyID
        /\ rpc[s].req.VolumeId \notin DOMAIN volumes
        /\ rpc[s].err = NotFoundError
        /\ rpc[s].calls = <<"Get">>
        /\ rpc[s].resp = Success
        /\ volumes # <<>>

\* C10: a ControllerExpandVolume whose negotiated size is not greater than
\* the volume's size issues no remote Update, leaves the store as it was,
\* returns the volume's current size in bytes, and requires node expansion
\* whatever the capability of the request.
C10_ExpandNotGreaterIsSkipped ==
    [][\A s \in Slots :
          LET req    == rpc'[s].req
              volume == volumes[req.VolumeId]
              resize == calculateStorageGB(req.CapacityRange, volume.Type)
          IN  (/\ Arrives(s, "ControllerExpandVolume")
               /\ req.VolumeId \in DOMAIN volumes
               /\ resize.err = "nil"
               /\ resize.size <= volume.SizeGB) =>
                  /\ rpc'[s].pc = "done"
                  /\ rpc'[s].resp.code = "OK"
                  /\ rpc'[s].resp.CapacityBytes = Bytes(volume.SizeGB, 0)
                  /\ rpc'[s].resp.NodeExpansionRequired
                  /\ rpc'[s].calls = <<"Get">>
                  /\ volumes' = volumes]_vars

C10_Witness ==
    \E s \in Slots :
        /\ rpc[s].op = "ControllerExpandVolume" /\ rpc[s].pc = "done"
        /\ rpc[s].req = ExpandRequest(1, NilRange, Block)
        /\ 1 \in DOMAIN volumes
        /\ volumes[1].SizeGB = 101
        /\ rpc[s].resp.code = "OK"
        /\ rpc[s].resp.CapacityBytes = Bytes(101, 0)
        /\ rpc[s].resp.NodeExpansionRequired
        /\ rpc[s].calls = <<"Get">>

\* the size ControllerExpandVolume negotiates for a request on a volume
resizeFor(req, volume) == calculateStorageGB(req.CapacityRange, volume.Type)

\* C11: a ControllerExpandVolume whose negotiated size is greater than the
\* volume's size goes on to exactly one remote resize, to the negotiated size;
\* when that succeeds the volume has the negotiated size, the answer carries
\* it in bytes, and node expansion is not required if and only if the
\* request's capability is a raw-block one (it is required for a mount
\* capability and when no capability is given).
C11_ExpandGreaterResizes ==
    [][\A s \in Slots :
          LET req == rpc'[s].req
              id  == req.VolumeId
          IN  /\ (/\ Arrives(s, "ControllerExpandVolume")
                  /\ id \in DOMAIN volumes
                  /\ resizeFor(req, volumes[id]).err = "nil"
                  /\ resizeFor(req, volumes[id]).size > volumes[id].SizeGB) =>
                     /\ rpc'[s].pc = "resize"
                     /\ rpc'[s].calls = <<"Get">>
                     /\ volumes' = volumes
              /\ (rpc[s].pc = "resize" /\ rpc'[s] # rpc[s]) =>
                     /\ rpc'[s].pc = "done"
                     /\ rpc'[s].calls = <<"Get", "Update">>
                     /\ rpc'[s].resp.code = "OK" =>
                            LET size == resizeFor(req, rpc[s].got).size
                            IN  /\ volumes' = withSize(id, size)
                                /\ volumes'[id].SizeGB = size
                                /\ rpc'[s].resp.CapacityBytes = Bytes(size, 0)
                                /\ rpc'[s].resp.NodeExpansionRequired =
                                       (req.VolumeCapability.type # "block")]_vars

C11_Witness ==
    \E s \in Slots :
        /\ rpc[s].op = "ControllerExpandVolume" /\ rpc[s].pc = "done"
        /\ rpc[s].req = ExpandRequest(1, Required(Bytes(100, 1)), Block)
        /\ rpc[s].calls = <<"Get", "Update">>
        /\ rpc[s].resp.code = "OK"
        /\ rpc[s].resp.CapacityBytes = Bytes(101, 0)
        /\ ~rpc[s].resp.NodeExpansionRequired
        /\ 1 \in DOMAIN volumes
        /\ volumes[1].SizeGB = 101

\* C12: with the calls served one after the other, the size of a volume in
\* the store never decreases: only the remote resize of ControllerExpandVolume
\* changes a size, and a resize is issued only for a size greater than the
\* size the handler fetched.
C12_SizeNeverDecreases ==
    [][/\ \A id \in DOMAIN volumes \cap DOMAIN volumes' :
              /\ volumes'[id].SizeGB >= volumes[id].SizeGB
              /\ volumes'[id].SizeGB # volumes[id].SizeGB =>
                     \E s \in Slots :
                         /\ rpc[s].op = "ControllerExpandVolume"
                         /\ rpc[s].pc = "resize"
                         /\ rpc[s].req.VolumeId = id
                         /\ rpc'[s].calls = <<"Get", "Update">>
       /\ \A s \in Slots :
              rpc'[s].pc = "resize" =>
                  resizeFor(rpc'[s].req, rpc'[s].got).size > rpc'[s].got.SizeGB]_vars

C12_Witness ==
    \E s \in Slots :
        /\ rpc[s].op = "ControllerExpandVolume" /\ rpc[s].pc = "done"
        /\ rpc[s].req = ExpandRequest(2, Required(Bytes(100, 1)), Mount)
        /\ rpc[s].calls = <<"Get", "Update">>
        /\ rpc[s].resp.code = "OK"
        /\ 2 \in DOMAIN volumes
        /\ volumes[2].Type = "bulk"
        /\ volumes[2].SizeGB = 200

\* C13: every volume in the store (each was made by CreateVolume and resized
\* only by ControllerExpandVolume) has a size that is a positive multiple of
\* the allocation step of its type.
C13_SizesArePositiveSteps ==
    \A id \in DOMAIN volumes :
        /\ volumes[id].SizeGB > 0
        /\ volumes[id].SizeGB % sizeIncrementsOf(volumes[id].Type) = 0

\* C14: however publish and unpublish calls follow or overlap each other, a
\* volume never has more than one server attached: its server set changes
\* only when a ControllerPublishVolume makes it the one node of the request,
\* or a ControllerUnpublishVolume makes it empty.
C14_AtMostOneServer ==
    [][\A id \in DOMAIN volumes' :
          /\ Len(volumes'[id].ServerUUIDs) <= 1
          /\ (id \in DOMAIN volumes
              /\ volumes'[id].ServerUUIDs # volumes[id].ServerUUIDs) =>
                 \E s \in Slots :
                     \/ /\ Arrives(s, "ControllerPublishVolume")
                        /\ rpc'[s].req.VolumeId = id
                        /\ volumes'[id].ServerUUIDs = <<rpc'[s].req.NodeId>>
                     \/ /\ rpc[s].op = "ControllerUnpublishVolume"
                        /\ rpc[s].pc = "detach"
                        /\ rpc'[s].pc = "done"
                        /\ rpc[s].req.VolumeId = id
                        /\ volumes'[id].ServerUUIDs = <<>>]_vars

C14_Witness ==
    /\ rpc[1].op = "ControllerPublishVolume" /\ rpc[1].pc = "done"
    /\ rpc[1].req = PublishRequest(1, "n1") /\ rpc[1].resp.code = "OK"
    /\ rpc[2].op = "ControllerPublishVolume" /\ rpc[2].pc = "done"
    /\ rpc[2].req = PublishRequest(1, "n2") /\ rpc[2].resp.code = "OK"
    /\ 1 \in DOMAIN volumes
    /\ volumes[1].ServerUUIDs = <<"n2">>

\* C15: when the store rejects the attach of a ControllerPublishVolume with an
\* error whose message is the attach-limit phrase (as it does when the node
\* already holds the most volumes a node can have), the call fails with
\* ResourceExhausted, whatever the status the error carries, and the store
\* (so the volume's attachment) is left as it was.
C15_AttachLimitResourceExhausted ==
    [][\A s \in Slots :
          (/\ Arrives(s, "ControllerPublishVolume")
           /\ rpc'[s].calls = <<"Update">>
           /\ rpc'[s].err.attachLimit) =>
              /\ rpc'[s].pc = "done"
              /\ rpc'[s].resp = StatusError("ResourceExhausted")
              /\ volumes' = volumes]_vars

C15_Witness ==
    \E s \in Slots :
        /\ rpc[s].op = "ControllerPublishVolume" /\ rpc[s].pc = "done"
        /\ rpc[s].calls = <<"Update">>
        /\ rpc[s].err.attachLimit
        /\ rpc[s].err.structured /\ rpc[s].err.StatusCode = 404
        /\ getVolumesPerServer(rpc[s].req.NodeId) >= defaultMaxVolumesPerNode
        /\ rpc[s].resp.code = "ResourceExhausted"

\* C16: a ControllerPublishVolume that asks for a read-only attachment and
\* gives a volume ID, a node ID and a capability fails with AlreadyExists; one
\* that lacks the volume ID, the node ID or the capability fails with
\* InvalidArgument, read-only or not.  Neither issues a remote call or
\* changes the store.
C16_PublishRejections ==
    [][\A s \in Slots :
          LET req     == rpc'[s].req
              missing == \/ req.VolumeId = EmptyID
                         \/ req.NodeId = ""
                         \/ req.VolumeCapability = NilCapability
          IN  (Arrives(s, "ControllerPublishVolume") /\ (missing \/ req.Readonly)) =>
                  /\ rpc'[s].pc = "done"
                  /\ rpc'[s].resp =
                         StatusError(IF missing THEN "InvalidArgument" ELSE "AlreadyExists")
                  /\ rpc'[s].calls = <<>>
                  /\ volumes' = volumes]_vars

C16_Witness ==
    \E s \in Slots :
        /\ rpc[s].op = "ControllerPublishVolume" /\ rpc[s].pc = "done"
        /\ rpc[s].req = [PublishRequest(1, "n1") EXCEPT !.Readonly = TRUE]
        /\ 1 \in DOMAIN volumes
        /\ volumes[1].ServerUUIDs = <<>>
        /\ rpc[s].resp = StatusError("AlreadyExists")
        /\ rpc[s].calls = <<>>

\* C17: a ControllerPublishVolume that succeeded has made the server set of
\* the volume exactly the node of the request, and its publish context has
\* the name of the volume as the store holds it and the LUKS values of the
\* request's volume context as they came, whatever they are.
C17_PublishSuccess ==
    \A s \in Slots :
        (/\ rpc[s].op = "ControllerPublishVolume" /\ rpc[s].pc = "done"
         /\ rpc[s].resp.code = "OK") =>
            LET req == rpc[s].req
            IN  /\ rpc[s].calls = <<"Update", "Get">>
                /\ req.VolumeId \in DOMAIN volumes
                /\ volumes[req.VolumeId].ServerUUIDs = <<req.NodeId>>
                /\ rpc[s].resp.Context =
                       [name |-> volumes[req.VolumeId].Name,
                        luksEncrypted |-> req.VolumeContext.luksEncrypted,
                        luksCipher |-> req.VolumeContext.luksCipher,
                        luksKeySize |-> req.VolumeContext.luksKeySize]

C17_Witness ==
    \E s \in Slots :
        /\ rpc[s].op = "ControllerPublishVolume" /\ rpc[s].pc = "done"
        /\ rpc[s].resp.code = "OK"
        /\ rpc[s].req.VolumeContext = UncheckedVolumeContext
        /\ rpc[s].resp.Context.luksEncrypted = "maybe"
        /\ rpc[s].resp.Context.luksKeySize = "-1"
        /\ rpc[s].resp.Context.name = "a"
        /\ 1 \in DOMAIN volumes
        /\ volumes[1].ServerUUIDs = <<"n1">>

\* some requisite topology of the request has a zone key with another zone
\* than the controller's
namesOtherZone(req) ==
    /\ ~req.AccessibilityRequirements.isNil
    /\ \E i \in DOMAIN req.AccessibilityRequirements.Requisite :
           LET Segments == req.AccessibilityRequirements.Requisite[i]
           IN  "zone" \in DOMAIN Segments /\ Segments.zone # DriverZone

\* the name is empty, no capability is given, or some capability has an
\* access mode or an access type that is not supported
unsatisfiable(req) ==
    \/ req.Name = ""
    \/ req.VolumeCapabilities = <<>>
    \/ \E i \in DOMAIN req.VolumeCapabilities :
           \/ req.VolumeCapabilities[i].mode # SingleNodeWriter
           \/ req.VolumeCapabilities[i].type \notin {"block", "mount"}

\* C18: CreateVolume fails with InvalidArgument, with no remote call and no
\* volume created, when the name is empty, no capability is given, or a
\* capability has an unsupported access mode or access type; and, the zone
\* check that comes next having found nothing, when the type parameter is
\* not "", "ssd" or "bulk" or the negotiator rejects the capacity range.
C18_CreateVolumeInvalidArgument ==
    [][\A s \in Slots :
          LET req     == rpc'[s].req
              type    == req.Parameters.type
              badType == type \notin {"", "ssd", "bulk"}
              badRange ==
                  /\ ~badType
                  /\ calculateStorageGB(req.CapacityRange,
                                        IF type = "" THEN "ssd" ELSE type).err # "nil"
          IN  (/\ Arrives(s, "CreateVolume")
               /\ \/ unsatisfiable(req)
                  \/ ~namesOtherZone(req) /\ (badType \/ badRange)) =>
                  /\ rpc'[s].pc = "done"
                  /\ rpc'[s].resp = StatusError("InvalidArgument")
                  /\ rpc'[s].calls = <<>>
                  /\ volumes' = volumes
                  /\ nextID' = nextID]_vars

C18_Witness ==
    \E s \in Slots :
        /\ rpc[s].op = "CreateVolume" /\ rpc[s].pc = "done"
        /\ rpc[s].req = [CreateRequest("a", "", NilRange) EXCEPT !.Parameters.type = "nvme"]
        /\ rpc[s].resp = StatusError("InvalidArgument")
        /\ rpc[s].calls = <<>>
        /\ volumesNamed("a") = {}

\* C19: a CreateVolume (with a name and capabilities that can be satisfied)
\* whose requisite topologies name another zone than the controller's fails
\* with ResourceExhausted, with no remote call and no volume created,
\* whatever its type parameter and capacity range; requisite topologies
\* without a zone key are passed over: a request none of whose topologies
\* names another zone is not answered ResourceExhausted.
C19_OtherZoneResourceExhausted ==
    [][\A s \in Slots :
          LET req == rpc'[s].req
          IN  Arrives(s, "CreateVolume") =>
                  /\ (~unsatisfiable(req) /\ namesOtherZone(req)) =>
                         /\ rpc'[s].pc = "done"
                         /\ rpc'[s].resp = StatusError("ResourceExhausted")
                         /\ rpc'[s].calls = <<>>
                         /\ volumes' = volumes
                         /\ nextID' = nextID
                  /\ ~namesOtherZone(req) =>
                         rpc'[s].resp.code # "ResourceExhausted"]_vars

C19_Witness ==
    \E s \in Slots :
        /\ rpc[s].op = "CreateVolume" /\ rpc[s].pc = "done"
        /\ rpc[s].req.AccessibilityRequirements =
               Requisite(<<[region |-> "other"], [zone |-> "other"]>>)
        /\ rpc[s].resp = StatusError("ResourceExhausted")
        /\ rpc[s].calls = <<>>
        /\ volumes = <<>>

\* C20 as stated: a CreateVolume whose zone constraint conflicts with the
\* controller's zone has failed with InvalidArgument.
C20_ZoneConflictInvalidArgument ==
    \A s \in Slots :
        (/\ rpc[s].op = "CreateVolume" /\ rpc[s].pc = "done"
         /\ namesOtherZone(rpc[s].req)) =>
            rpc[s].resp.code = "InvalidArgument"

\* C20, amended: a CreateVolume with a name and satisfiable capabilities
\* whose zone constraint conflicts with the controller's zone has failed with
\* ResourceExhausted, as a status error.
C20_ZoneConflictResourceExhausted ==
    \A s \in Slots :
        (/\ rpc[s].op = "CreateVolume" /\ rpc[s].pc = "done"
         /\ ~unsatisfiable(rpc[s].req)
         /\ namesOtherZone(rpc[s].req)) =>
            /\ rpc[s].resp.code = "ResourceExhausted"
            /\ rpc[s].resp.typed

C20_Witness ==
    \E s \in Slots :
        /\ rpc[s].op = "CreateVolume" /\ rpc[s].pc = "done"
        /\ rpc[s].req = [CreateRequest("a", "", NilRange) EXCEPT
                            !.AccessibilityRequirements = Requisite(<<[zone |-> "other"]>>)]
        /\ rpc[s].resp.code = "ResourceExhausted"
        /\ volumesNamed("a") # {}

\* the request has a name and satisfiable capabilities, names no other zone,
\* and has a type parameter and a capacity range that are accepted
passesEarlierChecks(req) ==
    /\ ~unsatisfiable(req)
    /\ ~namesOtherZone(req)
    /\ req.Parameters.type \in {"", "ssd", "bulk"}
    /\ calculateStorageGB(req.CapacityRange,
                          IF req.Parameters.type = "" THEN "ssd"
                          ELSE req.Parameters.type).err = "nil"

hasBlock(req) ==
    \E i \in DOMAIN req.VolumeCapabilities : req.VolumeCapabilities[i].type = "block"

\* C21: a CreateVolume with luksEncrypted = "true" and at least one raw-block
\* capability (and no other zone named) fails with InvalidArgument, with no
\* remote call and no volume created; a request that passes the earlier
\* checks, with encryption and no block capability, or with block
\* capabilities and no encryption, goes on to the lookup by name.
C21_LuksNeedsMount ==
    [][\A s \in Slots :
          LET req  == rpc'[s].req
              luks == req.Parameters.luksEncrypted = "true"
          IN  Arrives(s, "CreateVolume") =>
                  /\ (luks /\ hasBlock(req) /\ ~namesOtherZone(req)) =>
                         /\ rpc'[s].pc = "done"
                         /\ rpc'[s].resp = StatusError("InvalidArgument")
                         /\ rpc'[s].calls = <<>>
                         /\ volumes' = volumes
                         /\ nextID' = nextID
                  /\ (passesEarlierChecks(req) /\ ~(luks /\ hasBlock(req))) =>
                         /\ rpc'[s].calls = <<"List">>
                         /\ rpc'[s].resp.code # "InvalidArgument"]_vars

C21_Witness ==
    \E s \in Slots :
        /\ rpc[s].op = "CreateVolume" /\ rpc[s].pc = "done"
        /\ rpc[s].req.Parameters = LuksParameters
        /\ rpc[s].req.VolumeCapabilities = <<Mount, Block>>
        /\ rpc[s].resp = StatusError("InvalidArgument")
        /\ rpc[s].calls = <<>>

\* the volumes a step has added to the store
added == {volumes'[id] : id \in DOMAIN volumes' \ DOMAIN volumes}

\* C22: a CreateVolume issues one remote Create when its lookup by name
\* returned no volume and none otherwise (the request was rejected, the lookup
\* failed, or it found one volume of the same size, one of another size, or
\* several); the volume the Create makes has the name of the request, the
\* negotiated size, the resolved type and the controller's zone.
C22_OneCreateOnColdPath ==
    [][\A s \in Slots :
          LET req == rpc'[s].req
          IN  /\ Arrives(s, "CreateVolume") =>
                     /\ added = {}
                     /\ rpc'[s].calls \in {<<>>, <<"List">>}
                     /\ rpc'[s].pc = "create" <=>
                            /\ passesEarlierChecks(req)
                            /\ ~(req.Parameters.luksEncrypted = "true" /\ hasBlock(req))
                            /\ backend = "up"
                            /\ volumesNamed(req.Name) = {}
                     /\ rpc'[s].pc # "create" => rpc'[s].pc = "done"
              /\ (rpc[s].op = "CreateVolume" /\ rpc[s].pc = "create"
                  /\ rpc'[s] # rpc[s]) =>
                     /\ rpc'[s].pc = "done"
                     /\ rpc'[s].calls = <<"List", "Create">>
                     /\ rpc'[s].resp.code = "OK" =>
                            added =
                                {[UUID |-> rpc'[s].resp.VolumeId,
                                  Name |-> req.Name,
                                  SizeGB |-> negotiated(req).size,
                                  Type |-> IF req.Parameters.type = "" THEN "ssd"
                                           ELSE req.Parameters.type,
                                  ServerUUIDs |-> <<>>,
                                  Zone |-> DriverZone]}
                     /\ rpc'[s].resp.code # "OK" => added = {}]_vars

\* several volumes of the name were found, and no Create was issued
C22_Witness ==
    \E s \in Slots :
        /\ rpc[s].op = "CreateVolume" /\ rpc[s].pc = "done"
        /\ rpc[s].matches = 2
        /\ rpc[s].calls = <<"List">>
        /\ rpc[s].resp = PlainError
        /\ Cardinality(DOMAIN volumes) = 2
        /\ \E t \in Slots \ {s} :
               /\ rpc[t].op = "CreateVolume" /\ rpc[t].pc = "done"
               /\ rpc[t].calls = <<"List", "Create">>
               /\ rpc[t].resp.code = "OK"

\* C23: ValidateVolumeCapabilities answers InvalidArgument, without fetching,
\* when the volume ID is empty or no capabilities are given; NotFound when
\* the store has no volume of the ID; and when the volume is fetched it
\* succeeds and confirms the one capability of the supported access mode,
\* whatever capabilities the request names.
C23_ValidateConfirmsSupportedMode ==
    [][\A s \in Slots :
          LET req == rpc'[s].req
          IN  Arrives(s, "ValidateVolumeCapabilities") =>
                  /\ rpc'[s].pc = "done"
                  /\ volumes' = volumes
                  /\ (req.VolumeId = EmptyID \/ req.CapabilitiesNil) =>
                         /\ rpc'[s].resp = StatusError("InvalidArgument")
                         /\ rpc'[s].calls = <<>>
                  /\ (req.VolumeId # EmptyID /\ ~req.CapabilitiesNil
                      /\ backend = "up") =>
                         /\ rpc'[s].calls = <<"Get">>
                         /\ rpc'[s].resp =
                                IF req.VolumeId \in DOMAIN volumes
                                THEN [Success EXCEPT !.Confirmed =
                                         <<[mode |-> "SINGLE_NODE_WRITER",
                                            type |-> "none"]>>]
                                ELSE StatusError("NotFound")]_vars

\* capabilities the driver does not support were asked for and the call succeeded
C23_Witness ==
    \E s \in Slots :
        /\ rpc[s].op = "ValidateVolumeCapabilities" /\ rpc[s].pc = "done"
        /\ rpc[s].req.VolumeCapabilities = <<MultiWriterMount, UntypedCapability>>
        /\ rpc[s].resp.code = "OK"
        /\ Len(rpc[s].resp.Confirmed) = 1

\* C24: ListVolumes with a starting token is answered Aborted without a
\* remote call; with an empty token it lists the store once and answers one
\* entry for each volume of the store, holding the volume's ID and its size in
\* bytes (SizeGB * 1024^3), however many volumes there are.
C24_ListVolumesListsAll ==
    [][\A s \in Slots :
          LET req == rpc'[s].req
              entries == rpc'[s].resp.Entries
          IN  Arrives(s, "ListVolumes") =>
                  /\ rpc'[s].pc = "done"
                  /\ volumes' = volumes
                  /\ req.StartingToken # "" =>
                         /\ rpc'[s].resp = StatusError("Aborted")
                         /\ rpc'[s].calls = <<>>
                  /\ (req.StartingToken = "" /\ backend = "up") =>
                         /\ rpc'[s].calls = <<"List">>
                         /\ rpc'[s].resp.code = "OK"
                         /\ Len(entries) = Cardinality(DOMAIN volumes)
                         /\ {entries[i] : i \in DOMAIN entries} =
                                {[VolumeId |-> id,
                                  CapacityBytes |-> Bytes(volumes[id].SizeGB, 0)] :
                                     id \in DOMAIN volumes}]_vars

\* two volumes were listed
C24_Witness ==
    \E s \in Slots :
        /\ rpc[s].op = "ListVolumes" /\ rpc[s].pc = "done"
        /\ rpc[s].resp.code = "OK"
        /\ Len(rpc[s].resp.Entries) = 2
        /\ rpc[s].resp.Entries[1].VolumeId # rpc[s].resp.Entries[2].VolumeId

NotOffered ==
    {"GetCapacity", "CreateSnapshot", "DeleteSnapshot", "ListSnapshots",
     "ControllerGetVolume"}

\* C25: GetCapacity, CreateSnapshot, DeleteSnapshot, ListSnapshots and
\* ControllerGetVolume are answered Unimplemented whatever the request and
\* whatever the store holds, without a remote call and without a change to
\* the store.
C25_NotOfferedIsUnimplemented ==
    [][\A s \in Slots, op \in NotOffered :
          Arrives(s, op) =>
              /\ rpc'[s].pc = "done"
              /\ rpc'[s].resp = StatusError("Unimplemented")
              /\ rpc'[s].calls = <<>>
              /\ volumes' = volumes
              /\ nextID' = nextID]_vars

\* ControllerGetVolume was refused for a volume the store holds
C25_Witness ==
    \E s \in Slots :
        /\ rpc[s].op = "ControllerGetVolume" /\ rpc[s].pc = "done"
        /\ rpc[s].req.VolumeId \in DOMAIN volumes
        /\ rpc[s].resp.code = "Unimplemented"
        /\ backend = "up"

\* C26: ControllerExpandVolume answers InvalidArgument, without a remote
\* call, when the volume ID is empty; Internal when the volume cannot be
\* fetched (the store does not have it, or the fetch fails); OutOfRange when
\* the capacity range is rejected for the type the fetched volume has.  In
\* the three cases no resize is sent and the store is unchanged.
C26_ExpandRejections ==
    [][\A s \in Slots :
          LET req == rpc'[s].req
              id  == req.VolumeId
              fetchable == backend = "up" /\ id \in DOMAIN volumes
          IN  Arrives(s, "ControllerExpandVolume") =>
                  /\ volumes' = volumes
                  /\ id = EmptyID =>
                         /\ rpc'[s].pc = "done"
                         /\ rpc'[s].resp = StatusError("InvalidArgument")
                         /\ rpc'[s].calls = <<>>
                  /\ (id # EmptyID /\ ~fetchable) =>
                         /\ rpc'[s].pc = "done"
                         /\ rpc'[s].resp = StatusError("Internal")
                         /\ rpc'[s].calls = <<"Get">>
                  /\ (id # EmptyID /\ fetchable
                      /\ calculateStorageGB(req.CapacityRange,
                                            volumes[id].Type).err # "nil") =>
                         /\ rpc'[s].pc = "done"
                         /\ rpc'[s].resp = StatusError("OutOfRange")
                         /\ rpc'[s].calls = <<"Get">>]_vars

\* a range a volume of the default type could meet was refused for a bulk volume
C26_Witness ==
    \E s \in Slots :
        /\ rpc[s].op = "ControllerExpandVolume" /\ rpc[s].pc = "done"
        /\ rpc[s].req.CapacityRange = Between(GiB(1), GiB(3))
        /\ rpc[s].req.VolumeId \in DOMAIN volumes
        /\ volumes[rpc[s].req.VolumeId].Type = "bulk"
        /\ rpc[s].resp = StatusError("OutOfRange")
        /\ rpc[s].calls = <<"Get">>

AboutOneVolume ==
    {"DeleteVolume", "ControllerPublishVolume", "ControllerUnpublishVolume",
     "ValidateVolumeCapabilities", "ControllerExpandVolume"}

\* C27: when the last remote call of a DeleteVolume, ControllerPublishVolume,
\* ControllerUnpublishVolume, ValidateVolumeCapabilities or
\* ControllerExpandVolume was answered "not found" (status 404) by the
\* API, the operation ends in success or in NotFound, never in another code.
C27_NotFoundIsSuccessOrNotFound ==
    \A s \in Slots :
        (/\ rpc[s].pc = "done"
         /\ rpc[s].op \in AboutOneVolume
         /\ rpc[s].calls # <<>>
         /\ ~rpc[s].err.isNil
         /\ rpc[s].err.structured
         /\ rpc[s].err.StatusCode = 404
         /\ ~rpc[s].err.attachLimit) =>
            rpc[s].resp.code \in {"OK", "NotFound"}

Taxonomy ==
    {"InvalidArgument", "ResourceExhausted", "AlreadyExists", "NotFound",
     "Aborted", "Internal", "OutOfRange", "Unimplemented"}

\* C28: every operation that has ended has succeeded or failed with a status
\* error whose code is one of the taxonomy; none has returned the error of a
\* remote call, or another error without a status, as it was.
C28_FailuresAreTyped ==
    \A s \in Slots :
        rpc[s].pc = "done" =>
            \/ rpc[s].resp.code = "OK"
            \/ rpc[s].resp.typed /\ rpc[s].resp.code \in Taxonomy

\* the answer r has got is the refusal of a validation check: a missing
\* field, an unsupported capability or type, or a capacity range that cannot
\* be met (InvalidArgument, OutOfRange); a zone other than the controller's;
\* a read-only publish; a pagination token
rejectedByValidation(r) ==
    \/ r.resp.code \in {"InvalidArgument", "OutOfRange"}
    \/ /\ r.op = "CreateVolume"
       /\ r.resp.code = "ResourceExhausted"
       /\ namesOtherZone(r.req)
    \/ /\ r.op = "ControllerPublishVolume"
       /\ r.resp.code = "AlreadyExists"
       /\ r.req.Readonly
    \/ /\ r.op = "ListVolumes"
       /\ r.resp.code = "Aborted"
       /\ r.req.StartingToken # ""

\* C29 as stated: an operation that a validation check has refused has
\* issued no remote call.
C29_ValidationBeforeRemoteCalls ==
    \A s \in Slots :
        (rpc[s].pc = "done" /\ rejectedByValidation(rpc[s])) =>
            rpc[s].calls = <<>>

\* C29, amended: an operation that a validation check has refused has issued
\* no remote call, except ControllerExpandVolume refusing a capacity range,
\* which has issued the one Get of the volume and nothing else.
C29_ValidationBeforeRemoteCallsButExpandRange ==
    \A s \in Slots :
        (rpc[s].pc = "done" /\ rejectedByValidation(rpc[s])) =>
            rpc[s].calls =
                IF rpc[s].op = "ControllerExpandVolume"
                   /\ rpc[s].resp.code = "OutOfRange"
                THEN <<"Get">>
                ELSE <<>>

\* an expansion to an inconsistent range was refused after the volume was fetched
C29_Witness ==
    \E s \in Slots :
        /\ rpc[s].op = "ControllerExpandVolume" /\ rpc[s].pc = "done"
        /\ rpc[s].req.CapacityRange = Between(GiB(2), GiB(1))
        /\ rpc[s].resp = StatusError("OutOfRange")
        /\ rpc[s].calls = <<"Get">>
        /\ backend = "up"

\* C30: a ControllerPublishVolume that repeats the request before it, which
\* succeeded, while the volume is still attached to the node of the request
\* and the node holds no more volumes than the per-node maximum, attaches
\* again without an error, leaves the volume attached to exactly that node,
\* and ends with the answer the first call got.
C30_RepeatedPublishSucceeds ==
    [][\A s \in Slots :
          LET req      == rpc'[s].req
              id       == req.VolumeId
              repeated == /\ rpc'[s].prev.same
                          /\ rpc'[s].prev.resp.code = "OK"
                          /\ id \in DOMAIN volumes
                          /\ volumes[id].ServerUUIDs = <<req.NodeId>>
                          /\ getVolumesPerServer(req.NodeId) <= defaultMaxVolumesPerNode
          IN  /\ (Arrives(s, "ControllerPublishVolume") /\ repeated) =>
                     /\ rpc'[s].pc = "get"
                     /\ volumes'[id].ServerUUIDs = <<req.NodeId>>
              /\ (/\ rpc[s].op = "ControllerPublishVolume" /\ rpc[s].pc = "get"
                  /\ rpc'[s] # rpc[s]
                  /\ repeated) =>
                     /\ rpc'[s].resp = rpc[s].prev.resp
                     /\ volumes' = volumes]_vars

labelOf(r) ==
    IF r.op = "ValidateVolumeCapabilities" THEN "fetch volume to validate capabilities"
    ELSE IF r.op = "ControllerUnpublishVolume" /\ r.calls = <<"Get", "Update">>
    THEN "unpublish volume"
    ELSE IF r.op = "ControllerPublishVolume" /\ r.calls = <<"Update", "Get">>
    THEN "fetch volume"
    ELSE IF r.op = "ControllerPublishVolume" /\ ~r.err.attachLimit
    THEN "attaching volume"
    ELSE ""

\* C32: an error handed to the error translator comes back as NotFound when
\* it is an answer of the API with status 404, and as Aborted, with the label
\* of the operation in the message, in every other case (an answer with
\* another status, or an error that is no answer of the API); never as
\* another code and never as success.
C32_TranslatorNotFoundOrAborted ==
    \A s \in Slots :
        (/\ rpc[s].pc = "done"
         /\ ~rpc[s].err.isNil
         /\ labelOf(rpc[s]) # "") =>
            rpc[s].resp =
                IF rpc[s].err.structured /\ rpc[s].err.StatusCode = 404
                THEN [NoResponse EXCEPT !.code = "NotFound"]
                ELSE [NoResponse EXCEPT !.code = "Aborted",
                                        !.label = labelOf(rpc[s])]

\* an answer of the API with status 500 was translated to Aborted
C32_Witness ==
    \E s \in Slots :
        /\ rpc[s].op = "ValidateVolumeCapabilities" /\ rpc[s].pc = "done"
        /\ rpc[s].err.structured /\ rpc[s].err.StatusCode = 500
        /\ rpc[s].resp.code = "Aborted"
        /\ rpc[s].resp.label = "fetch volume to validate capabilities"

\* C33: a CreateVolume that passes the checks and whose lookup returns more
\* than one volume of its name fails, having issued the lookup and nothing
\* else, and leaves the store as it was; so as long as two volumes share a
\* name, each CreateVolume for the name that sees both fails and adds none.
C33_SeveralMatchesFail ==
    [][\A s \in Slots :
          LET req == rpc'[s].req
          IN  (/\ Arrives(s, "CreateVolume")
               /\ passesEarlierChecks(req)
               /\ backend = "up"
               /\ Cardinality(volumesNamed(req.Name)) > 1) =>
                  /\ rpc'[s].pc = "done"
                  /\ rpc'[s].resp.code \notin {"OK", "none"}
                  /\ rpc'[s].resp.VolumeId = EmptyID
                  /\ rpc'[s].calls = <<"List">>
                  /\ volumes' = volumes
                  /\ nextID' = nextID]_vars

\* two volumes of one name, left by a race, and a request for a bulk volume
\* of the name that saw both
C33_Witness ==
    \E s \in Slots :
        /\ rpc[s].op = "CreateVolume" /\ rpc[s].pc = "done"
        /\ rpc[s].req = CreateRequest("a", "bulk", NilRange)
        /\ rpc[s].matches = 2
        /\ rpc[s].resp.code # "OK"
        /\ Cardinality({id \in DOMAIN volumes : volumes[id].Name = "a"}) = 2
        /\ backend = "up"

\* C34: a ControllerPublishVolume for a volume that is attached to another
\* node, to a known node that holds fewer volumes than the attach limit, is
\* not refused: the attach goes through, the volume is then attached to the
\* node of the request and to no other, and the call succeeds when the
\* volume is fetched.
C34_PublishMovesTheVolume ==
    [][\A s \in Slots :
          LET req == rpc'[s].req
              id  == req.VolumeId
          IN  /\ (/\ Arrives(s, "ControllerPublishVolume")
                  /\ publishRejection(req) = "OK"
                  /\ id \in DOMAIN volumes
                  /\ req.NodeId \in Servers
                  /\ Len(volumes[id].ServerUUIDs) = 1
                  /\ volumes[id].ServerUUIDs[1] # req.NodeId
                  /\ getVolumesPerServer(req.NodeId) < defaultMaxVolumesPerNode) =>
                     /\ rpc'[s].pc = "get"
                     /\ rpc'[s].calls = <<"Update">>
                     /\ volumes' = [volumes EXCEPT ![id].ServerUUIDs = <<req.NodeId>>]
              /\ (/\ rpc[s].op = "ControllerPublishVolume" /\ rpc[s].pc = "get"
                  /\ rpc'[s] # rpc[s]
                  /\ id \in DOMAIN volumes) =>
                     /\ rpc'[s].pc = "done"
                     /\ rpc'[s].resp.code = "OK"
                     /\ rpc'[s].resp.Context.name = volumes[id].Name
                     /\ volumes' = volumes]_vars

\* volume 1 was published to n1 and then to n2, and is attached to n2 alone
C34_Witness ==
    \E s \in Slots, t \in Slots :
        /\ rpc[s].op = "ControllerPublishVolume" /\ rpc[s].pc = "done"
        /\ rpc[s].req = PublishRequest(1, "n2")
        /\ rpc[s].resp.code = "OK"
        /\ rpc[t].op = "ControllerPublishVolume" /\ rpc[t].pc = "done"
        /\ rpc[t].req = PublishRequest(1, "n1")
        /\ rpc[t].resp.code = "OK"
        /\ 1 \in DOMAIN volumes /\ volumes[1].ServerUUIDs = <<"n2">>

\* C35: a ControllerUnpublishVolume is refused with InvalidArgument when,
\* and only when, its volume ID is empty; with a volume ID it fetches the
\* volume whatever the node ID of the request, and for a volume of the store
\* it then empties the volume's server set and succeeds, also when the node
\* ID is empty or names a node the volume is not attached to.
C35_UnpublishIsVolumeScoped ==
    [][\A s \in Slots :
          LET req == rpc'[s].req
              id  == req.VolumeId
          IN  /\ Arrives(s, "ControllerUnpublishVolume") =>
                     /\ volumes' = volumes
                     /\ id = EmptyID =>
                            /\ rpc'[s].pc = "done"
                            /\ rpc'[s].resp = StatusError("InvalidArgument")
                            /\ rpc'[s].calls = <<>>
                     /\ id # EmptyID =>
                            /\ rpc'[s].calls = <<"Get">>
                            /\ rpc'[s].resp.code # "InvalidArgument"
                            /\ rpc'[s].pc = IF id \in DOMAIN volumes
                                            THEN "detach" ELSE "done"
              /\ (/\ rpc[s].op = "ControllerUnpublishVolume" /\ rpc[s].pc = "detach"
                  /\ rpc'[s] # rpc[s]
                  /\ id \in DOMAIN volumes) =>
                     /\ rpc'[s].pc = "done"
                     /\ rpc'[s].resp = Success
                     /\ rpc'[s].calls = <<"Get", "Update">>
                     /\ volumes' = [volumes EXCEPT ![id].ServerUUIDs = <<>>]]_vars

\* volume 1 was attached to n1 and a request naming n2 has detached it
C35_Witness ==
    /\ rpc[1].op = "ControllerPublishVolume" /\ rpc[1].pc = "done"
    /\ rpc[1].resp.code = "OK"
    /\ rpc[2].op = "ControllerUnpublishVolume" /\ rpc[2].pc = "done"
    /\ rpc[2].req = [VolumeId |-> 1, NodeId |-> "n2"]
    /\ rpc[2].calls = <<"Get", "Update">>
    /\ rpc[2].resp.code = "OK"
    /\ 1 \in DOMAIN volumes /\ volumes[1].ServerUUIDs = <<>>

\* C36: a ControllerUnpublishVolume that runs beside a DeleteVolume of its
\* volume ends in success in whichever order their remote calls come, and
\* never in NotFound, also when the volume goes between its Get and its
\* Update.
C36_UnpublishNeverNotFound ==
    \A s \in Slots :
        (rpc[s].op = "ControllerUnpublishVolume" /\ rpc[s].pc = "done"
         /\ rpc[s].req.VolumeId # EmptyID) =>
            rpc[s].resp = Success

\* C37: a CreateVolume that passes the checks and whose lookup finds one
\* volume of its name, of the size the request negotiates, succeeds with the
\* ID of that volume whatever the type and the encryption parameters of the
\* request are; the stored volume stays as it is, and the volume context of
\* the answer is made from the parameters of the request.
C37_HitComparesSizeOnly ==
    [][\A s \in Slots :
          LET req   == rpc'[s].req
              found == volumesNamed(req.Name)
              luks  == req.Parameters.luksEncrypted = "true"
          IN  (/\ Arrives(s, "CreateVolume")
               /\ passesEarlierChecks(req)
               /\ ~(luks /\ hasBlock(req))
               /\ backend = "up"
               /\ Cardinality(found) = 1
               /\ \A vol \in found : vol.SizeGB = negotiated(req).size) =>
                  /\ rpc'[s].pc = "done"
                  /\ rpc'[s].resp.code = "OK"
                  /\ \A vol \in found : rpc'[s].resp.VolumeId = vol.UUID
                  /\ rpc'[s].resp.Context =
                         [name |-> req.Name,
                          luksEncrypted |-> IF luks THEN "true" ELSE "false",
                          luksCipher |-> IF luks THEN req.Parameters.luksCipher ELSE "",
                          luksKeySize |-> IF luks THEN req.Parameters.luksKeySize ELSE ""]
                  /\ rpc'[s].calls = <<"List">>
                  /\ volumes' = volumes]_vars

\* a request for 100 GB of the default type was answered with a bulk volume
C37_Witness ==
    \E s \in Slots :
        /\ rpc[s].op = "CreateVolume" /\ rpc[s].pc = "done"
        /\ rpc[s].req = CreateRequest("a", "", Required(GiB(100)))
        /\ rpc[s].resp.code = "OK"
        /\ rpc[s].calls = <<"List">>
        /\ rpc[s].resp.VolumeId \in DOMAIN volumes
        /\ volumes[rpc[s].resp.VolumeId].Type = "bulk"
        /\ volumes[rpc[s].resp.VolumeId].SizeGB = 100

StoreReaders ==
    NotOffered \cup
    {"ValidateVolumeCapabilities", "ListVolumes", "ControllerGetCapabilities"}

\* C38: no step of a ValidateVolumeCapabilities, a ListVolumes, a
\* ControllerGetCapabilities or an operation that is not offered, and no
\* step that ends a call of any operation with InvalidArgument, changes the
\* store: the volumes, and the name, size, type and servers of each, are
\* after the step what they were before it.
C38_StoreUntouched ==
    [][\A s \in Slots :
          (/\ rpc'[s] # rpc[s]
           /\ \/ rpc'[s].op \in StoreReaders
              \/ rpc'[s].pc = "done" /\ rpc'[s].resp.code = "InvalidArgument") =>
              /\ volumes' = volumes
              /\ nextID' = nextID]_vars

\* a publish without a capability was refused and volume 1 is attached nowhere
C38_Witness ==
    \E s \in Slots :
        /\ rpc[s].op = "ControllerPublishVolume" /\ rpc[s].pc = "done"
        /\ rpc[s].req.VolumeCapability = NilCapability
        /\ rpc[s].resp = StatusError("InvalidArgument")
        /\ 1 \in DOMAIN volumes /\ volumes[1].ServerUUIDs = <<>>

\* the remote calls an operation issues, in their order
callsOf(op) ==
    IF op = "CreateVolume" THEN <<"List", "Create">>
    ELSE IF op = "ControllerPublishVolume" THEN <<"Update", "Get">>
    ELSE IF op \in {"ControllerUnpublishVolume", "ControllerExpandVolume"}
    THEN <<"Get", "Update">>
    ELSE IF op = "DeleteVolume" THEN <<"Delete">>
    ELSE IF op = "ValidateVolumeCapabilities" THEN <<"Get">>
    ELSE IF op = "ListVolumes" THEN <<"List">>
    ELSE <<>>

\* C39: a request has issued at most two remote calls, and those it has
\* issued are the first calls of its operation in their order (List, Create
\* for CreateVolume; Update, Get for ControllerPublishVolume; Get, Update for
\* ControllerUnpublishVolume and ControllerExpandVolume; one call for
\* DeleteVolume, ValidateVolumeCapabilities and ListVolumes; none for the
\* others); a request whose remote call failed, or that has issued all its
\* calls, has ended, so no call is issued twice; a request that has not
\* ended can take its next call.
C39_BoundedCallsNoRetry ==
    \A s \in Slots :
        LET r == rpc[s]
        IN  /\ Len(r.calls) <= 2
            /\ Len(r.calls) <= Len(callsOf(r.op))
            /\ r.calls = SubSeq(callsOf(r.op), 1, Len(r.calls))
            /\ r.pc \in {"idle", "done"} \/ (Len(r.calls) = 1 /\ r.err.isNil)
            /\ (~r.err.isNil \/ r.calls = callsOf(r.op)) => r.pc \in {"idle", "done"}
            /\ r.pc = "create" => ENABLED CreateVolumeCreate(s)
            /\ r.pc = "get" => ENABLED ControllerPublishVolumeGet(s)
            /\ r.pc = "detach" => ENABLED ControllerUnpublishVolumeUpdate(s)
            /\ r.pc = "resize" => ENABLED ControllerExpandVolumeUpdate(s)

\* a resize failed and the request ended after its two calls
C39_Witness ==
    \E s \in Slots :
        /\ rpc[s].op = "ControllerExpandVolume" /\ rpc[s].pc = "done"
        /\ rpc[s].calls = <<"Get", "Update">>
        /\ ~rpc[s].err.isNil
        /\ rpc[s].resp.code = "Internal"

\* C40 as stated: a ControllerExpandVolume that repeats the request before
\* it, which succeeded, succeeds after the Get alone, without a resize, and
\* answers the capacity and the node-expansion flag the first call answered,
\* whether the capability is mount or raw block.
C40_RepeatedExpandSameAnswer ==
    [][\A s \in Slots :
          (/\ Arrives(s, "ControllerExpandVolume")
           /\ rpc'[s].prev.same
           /\ rpc'[s].prev.resp.code = "OK") =>
              /\ rpc'[s].pc = "done"
              /\ rpc'[s].calls = <<"Get">>
              /\ rpc'[s].resp.code = "OK"
              /\ rpc'[s].resp.CapacityBytes = rpc'[s].prev.resp.CapacityBytes
              /\ rpc'[s].resp.NodeExpansionRequired =
                     rpc'[s].prev.resp.NodeExpansionRequired
              /\ volumes' = volumes]_vars

\* C40, amended: such a repeat succeeds after the Get alone, without a
\* resize, and answers the capacity the first call answered; its
\* node-expansion flag is true, which is the flag of the first call unless
\* that call resized the volume for a raw-block capability and answered false.
C40_RepeatedExpandSameCapacity ==
    [][\A s \in Slots :
          (/\ Arrives(s, "ControllerExpandVolume")
           /\ rpc'[s].prev.same
           /\ rpc'[s].prev.resp.code = "OK") =>
              /\ rpc'[s].pc = "done"
              /\ rpc'[s].calls = <<"Get">>
              /\ rpc'[s].resp.code = "OK"
              /\ rpc'[s].resp.CapacityBytes = rpc'[s].prev.resp.CapacityBytes
              /\ rpc'[s].resp.NodeExpansionRequired
              /\ rpc'[s].req.VolumeCapability.type # "block" =>
                     rpc'[s].prev.resp.NodeExpansionRequired
              /\ volumes' = volumes]_vars

\* the repeat of a raw-block expansion asks for the node step the first call did not
C40_Witness ==
    \E s \in Slots :
        /\ rpc[s].op = "ControllerExpandVolume" /\ rpc[s].pc = "done"
        /\ rpc[s].req.VolumeCapability = Block
        /\ rpc[s].prev.same
        /\ rpc[s].prev.resp.code = "OK"
        /\ ~rpc[s].prev.resp.NodeExpansionRequired
        /\ rpc[s].resp.code = "OK"
        /\ rpc[s].resp.NodeExpansionRequired
        /\ rpc[s].resp.CapacityBytes = rpc[s].prev.resp.CapacityBytes
        /\ rpc[s].calls = <<"Get">>

====
